---- MODULE Spec2Model ----
(***************************************************************************)
(* File-Allocation-System: record list (ProcurementList.tsx), Add Record   *)
(* form and User Management (both in contexts/DataContext.tsx), modelled   *)
(* as state machines over the remote store and the pages' local state.     *)
(*                                                                         *)
(* A handler is one action.  An async handler keeps the `procurements`     *)
(* array of the render that created it, so every read it makes after an    *)
(* await still sees the snapshot it started with; the store's push         *)
(* (onProcurementsChange -> setProcurements) is a separate action.         *)
(* A remote write may throw: a handler draws how many of its writes        *)
(* succeed before one throws.                                              *)
(***************************************************************************)
EXTENDS Integers, Sequences, FiniteSets, TLC

\* ---- bounds ----
MaxRecords == 2          \* records created by the Add Record form
NumFolders == 2          \* folders
MaxDate    == 2          \* distinct dateAdded values
MaxTime    == 2          \* readings of the clock (new Date()) by writing handlers
MaxUsers   == 2          \* users ever created, the primordial admin included

\* an absent optional field (stackNumber?, borrowedDate?, returnDate?)
Undefined == 0

Ids       == 1..(MaxRecords + 1)   \* id 1 was given out before the pages opened
FolderIds == 1..NumFolders
Dates     == 1..MaxDate
Names     == {"", "ann"}       \* borrowedBy as typed
Divisions == {"", "ops"}       \* division as typed
Statuses  == {"active", "archived"}

NULL == [null |-> TRUE]

VARIABLES
    store,                \* the remote procurements collection
    procurements,         \* the pages' local snapshot of it
    nextId,               \* id the store gives the next created record
    now,                  \* the clock
    pendingStatusChange,  \* NULL or [procurement, newStatus]
    isStatusConfirmOpen,
    borrowEditModal,      \* NULL or [procurement, borrowedBy, division]
    editingProcurement,   \* NULL or the record being edited
    isEditDialogOpen,
    deleteId,             \* Undefined (null) or an id
    isDeleteDialogOpen,   \* the row's delete AlertDialog
    selectedIds,
    isBulkDeleteDialogOpen,
    toast,                \* the message the last handler showed, "" when none
    lastOp,               \* the handler that ran last
    issued,               \* the store calls the last handler issued, in order
    storeFaulty,          \* whether calls to the store may throw
    users,                \* the remote users collection
    localUsers,           \* UserManagement's local snapshot of it
    nextUserId,
    selectedUser,
    formData,
    isEditOpen,
    isAddOpen,
    stackNumbers,         \* the map calculateStackNumbers returned last
    stackFolder,          \* the folder it was called for, Undefined before a call
    filters,              \* the list's filter bar
    statusFilters,        \* the statuses ticked in the status filter, in order
    sortField,
    sortDirection,
    currentPage,
    cabinets,             \* the list's snapshot of the store's cabinets node
    shelves,              \* the list's snapshot of the store's shelves node
    folders,              \* the list's snapshot of the store's folders node
    nodes,                \* the store's cabinets, shelves and folders nodes
    provider,             \* DataProvider's cabinets, shelves and folders
    addForm,              \* the Add Record form's location pickers and preview
    currentUser,          \* NULL or the logged-in user, as useAuth gives it
    usersSubscribed,      \* whether UserManagement holds a users subscription
    location,             \* the route shown
    viewMode,             \* the Visual Browser's level
    selectedShelfId,      \* NullId or the id chosen at each level
    selectedCabinetId,
    selectedFolderId,
    selectedFile          \* NULL or the record shown in the file dialog

recVars  == <<store, procurements, nextId, now, pendingStatusChange, isStatusConfirmOpen,
              borrowEditModal, editingProcurement, isEditDialogOpen, deleteId,
              isDeleteDialogOpen, selectedIds, isBulkDeleteDialogOpen>>
userVars == <<users, localUsers, nextUserId, selectedUser, formData, isEditOpen, isAddOpen>>
logVars  == <<toast, lastOp, issued, storeFaulty>>
calcVars == <<stackNumbers, stackFolder>>
viewVars == <<filters, statusFilters, sortField, sortDirection, currentPage,
              cabinets, shelves, folders>>
formVars == <<nodes, provider, addForm>>
authVars == <<currentUser, usersSubscribed, location>>
browseVars == <<viewMode, selectedShelfId, selectedCabinetId, selectedFolderId, selectedFile>>
vars     == <<recVars, userVars, logVars, calcVars, viewVars, formVars, authVars, browseVars>>

\* ---- sequences ----
RECURSIVE SeqById(_)
\* a collection as the array the store delivers: ordered by key
SeqById(S) ==
    IF S = {} THEN <<>>
    ELSE LET m == CHOOSE r \in S : \A q \in S : r.id <= q.id
         IN  <<m>> \o SeqById(S \ {m})

Take(s, n) == SubSeq(s, 1, n)

\* ---- the store client (lib/storage) ----
Merge(r, patch) ==
    [f \in DOMAIN r |-> IF f \in DOMAIN patch THEN patch[f] ELSE r[f]]

\* updateProcurement(id, patch): merge the patch into the record with that id
updateProcurement(S, id, patch) ==
    {IF r.id = id THEN Merge(r, patch) ELSE r : r \in S}

\* deleteProcurement(id)
deleteProcurement(S, id) == {r \in S : r.id # id}

\* addProcurement(data): the store creates the record
addProcurement(S, rec) == S \cup {rec}

\* one store call: <<"add", id, record>>, <<"update", id, patch>> or <<"delete", id>>
ApplyCall(S, c) ==
    IF c[1] = "add" THEN addProcurement(S, c[3])
    ELSE IF c[1] = "update" THEN updateProcurement(S, c[2], c[3])
    ELSE deleteProcurement(S, c[2])

RECURSIVE ApplyCalls(_, _)
ApplyCalls(S, cs) ==
    IF cs = <<>> THEN S ELSE ApplyCalls(ApplyCall(S, Head(cs)), Tail(cs))

\* ---- stack numbering (ProcurementList.tsx) ----
\* a comparator that puts the larger stack number first
stackCompareDescending(a, b) ==
    IF a.stackNumber # Undefined /\ b.stackNumber # Undefined
    THEN b.stackNumber - a.stackNumber
    ELSE a.dateAdded - b.dateAdded

\* the comparator of calculateStackNumbers' sort
stackCompare(a, b) ==
    IF a.stackNumber # Undefined /\ b.stackNumber # Undefined
    THEN a.stackNumber - b.stackNumber
    ELSE a.dateAdded - b.dateAdded

RECURSIVE InsertSorted(_, _)
InsertSorted(s, x) ==
    IF s = <<>> THEN <<x>>
    ELSE IF stackCompare(s[Len(s)], x) > 0
         THEN Append(InsertSorted(Take(s, Len(s) - 1), x), s[Len(s)])
         ELSE Append(s, x)

RECURSIVE SortStack(_)
\* Array.prototype.sort with stackCompare: a stable insertion sort
SortStack(s) ==
    IF s = <<>> THEN <<>>
    ELSE InsertSorted(SortStack(Take(s, Len(s) - 1)), s[Len(s)])

\* a filter that forgets the status
allInFolder(procs, folderId) ==
    SortStack(SeqById({p \in procs : p.folderId = folderId}))

\* the archived records of the folder, in stack order
availableInFolder(procs, folderId) ==
    SortStack(SeqById({p \in procs : p.folderId = folderId /\ p.status = "archived"}))

\* the entries of the map calculateStackNumbers returns, in insertion order
calculateStackNumbers(procs, folderId) ==
    LET sorted == availableInFolder(procs, folderId)
    IN  [i \in 1..Len(sorted) |-> <<sorted[i].id, i>>]

\* the store calls updateStackNumbersForFolder issues, in order, computed
\* from the snapshot `procs` the running handler holds
updateStackNumbersForFolder(procs, folderId) ==
    LET stackMap == calculateStackNumbers(procs, folderId)
        borrowedInFolder ==
            SeqById({p \in procs : /\ p.folderId = folderId
                                   /\ p.status = "active"
                                   /\ p.stackNumber # Undefined})
    IN  [i \in 1..Len(stackMap) |->
            <<"update", stackMap[i][1], [stackNumber |-> stackMap[i][2]]>>]
        \o
        [i \in 1..Len(borrowedInFolder) |->
            <<"update", borrowedInFolder[i].id, [stackNumber |-> Undefined]>>]

\* ---- record list page (ProcurementList.tsx) ----
\* a store that undoes the calls of a sequence that did not complete
AppliedOrRolledBack(calls, n) ==
    IF n < Len(calls) THEN store ELSE ApplyCalls(store, calls)

\* the calls of `calls` the store has applied when the first n succeeded
Applied(calls, n) == ApplyCalls(store, Take(calls, n))

\* the calls issued when the first n succeeded: call n+1, if any, threw
Issued(calls, n) == Take(calls, IF n < Len(calls) THEN n + 1 ELSE n)

\* how many of `calls` may succeed: all of them, or any prefix when the store
\* is faulty (the call after the prefix throws)
Outcomes(calls) == IF storeFaulty THEN 0..Len(calls) ELSE {Len(calls)}

\* every dialog of the page is modal: rows react only when none is open, and
\* the user acts on a page that has received the push of the last write
NoDialogOpen ==
    /\ procurements = store
    /\ ~isStatusConfirmOpen
    /\ borrowEditModal = NULL
    /\ ~isEditDialogOpen
    /\ ~isDeleteDialogOpen
    /\ ~isBulkDeleteDialogOpen

\* the record with id 1, when the store still holds it
seedRecord ==
    [id |-> 1, folderId |-> 1, status |-> "archived", stackNumber |-> 1,
     dateAdded |-> 1, borrowedBy |-> "", division |-> "",
     borrowedDate |-> Undefined, returnDate |-> Undefined]

\* the pages as constructed, over a store that holds `seed`
InitRecords(seed) ==
    /\ store = seed
    /\ procurements = {}
    /\ nextId = 2
    /\ now = 0
    /\ pendingStatusChange = NULL
    /\ isStatusConfirmOpen = FALSE
    /\ borrowEditModal = NULL
    /\ editingProcurement = NULL
    /\ isEditDialogOpen = FALSE
    /\ deleteId = Undefined
    /\ isDeleteDialogOpen = FALSE
    /\ selectedIds = {}
    /\ isBulkDeleteDialogOpen = FALSE
    /\ toast = ""
    /\ lastOp = "init"
    /\ issued = <<>>

\* onProcurementsChange(setProcurements): the store pushes its collection
PushProcurements ==
    /\ procurements # store
    /\ procurements' = store
    /\ lastOp' = "onProcurementsChange"
    /\ toast' = ""
    /\ issued' = <<>>
    /\ UNCHANGED <<store, nextId, now, pendingStatusChange, isStatusConfirmOpen,
                   borrowEditModal, editingProcurement, isEditDialogOpen, deleteId,
                   isDeleteDialogOpen, selectedIds, isBulkDeleteDialogOpen>>

\* a select that applies a return as soon as it is picked
handleStatusChangeAtOnce(procurement, newStatus) ==
    /\ NoDialogOpen
    /\ procurement \in procurements
    /\ now < MaxTime
    /\ now' = now + 1
    /\ pendingStatusChange' = [procurement |-> procurement, newStatus |-> newStatus]
    /\ isStatusConfirmOpen' = TRUE
    /\ lastOp' = "handleStatusChange"
    /\ toast' = ""
    /\ issued' = IF newStatus = "archived"
                 THEN << <<"update", procurement.id,
                           [status |-> "archived", returnDate |-> now + 1]>> >>
                 ELSE <<>>
    /\ store' = ApplyCalls(store, issued')
    /\ UNCHANGED <<procurements, nextId, borrowEditModal, editingProcurement,
                   isEditDialogOpen, deleteId, isDeleteDialogOpen, selectedIds,
                   isBulkDeleteDialogOpen>>

\* handleStatusChange(procurement, newStatus): a row's status select
handleStatusChange(procurement, newStatus) ==
    /\ NoDialogOpen
    /\ procurement \in procurements
    /\ pendingStatusChange' = [procurement |-> procurement, newStatus |-> newStatus]
    /\ isStatusConfirmOpen' = TRUE
    /\ lastOp' = "handleStatusChange"
    /\ toast' = ""
    /\ issued' = <<>>
    /\ UNCHANGED <<store, procurements, nextId, now, borrowEditModal, editingProcurement,
                   isEditDialogOpen, deleteId, isDeleteDialogOpen, selectedIds,
                   isBulkDeleteDialogOpen>>

\* the confirmation dialog's Close button
closeStatusConfirm ==
    /\ isStatusConfirmOpen
    /\ isStatusConfirmOpen' = FALSE
    /\ lastOp' = "closeStatusConfirm"
    /\ toast' = ""
    /\ issued' = <<>>
    /\ UNCHANGED <<store, procurements, nextId, now, pendingStatusChange, borrowEditModal,
                   editingProcurement, isEditDialogOpen, deleteId, isDeleteDialogOpen,
                   selectedIds, isBulkDeleteDialogOpen>>

\* the calls of confirmReturnFile, in order
returnCalls(procurement) ==
    <<  <<"update", procurement.id, [status |-> "archived", returnDate |-> now + 1]>>  >>
    \o updateStackNumbersForFolder(procurements, procurement.folderId)

\* confirmReturnFile(procurement), the first n calls succeeding
confirmReturnFile(procurement, n) ==
    /\ now < MaxTime
    /\ now' = now + 1
    /\ store' = Applied(returnCalls(procurement), n)
    /\ issued' = Issued(returnCalls(procurement), n)
    /\ IF n = Len(returnCalls(procurement))
       THEN /\ pendingStatusChange' = NULL
            /\ toast' = "success: File returned and marked as archived"
       ELSE /\ UNCHANGED pendingStatusChange
            /\ toast' = "error: Failed to return file"
    /\ UNCHANGED borrowEditModal

\* the confirmation dialog's Proceed button (the button closes the dialog)
proceedStatusChange ==
    /\ isStatusConfirmOpen
    /\ pendingStatusChange # NULL
    /\ lastOp' = "proceedStatusChange"
    /\ isStatusConfirmOpen' = FALSE
    /\ IF pendingStatusChange.newStatus = "active"
       THEN /\ borrowEditModal' =
                 [procurement |-> pendingStatusChange.procurement,
                  borrowedBy  |-> pendingStatusChange.procurement.borrowedBy,
                  division    |-> pendingStatusChange.procurement.division]
            /\ pendingStatusChange' = NULL
            /\ toast' = ""
            /\ issued' = <<>>
            /\ UNCHANGED <<store, now>>
       ELSE \E n \in Outcomes(returnCalls(pendingStatusChange.procurement)) :
                confirmReturnFile(pendingStatusChange.procurement, n)
    /\ UNCHANGED <<procurements, nextId, editingProcurement, isEditDialogOpen, deleteId,
                   isDeleteDialogOpen, selectedIds, isBulkDeleteDialogOpen>>

\* typing into the borrow-details modal
setBorrowFields(borrowedBy, division) ==
    /\ borrowEditModal # NULL
    /\ borrowEditModal' = [borrowEditModal EXCEPT !.borrowedBy = borrowedBy,
                                                  !.division = division]
    /\ borrowEditModal' # borrowEditModal
    /\ lastOp' = "setBorrowEditModal"
    /\ toast' = ""
    /\ issued' = <<>>
    /\ UNCHANGED <<store, procurements, nextId, now, pendingStatusChange,
                   isStatusConfirmOpen, editingProcurement, isEditDialogOpen, deleteId,
                   isDeleteDialogOpen, selectedIds, isBulkDeleteDialogOpen>>

\* the borrow-details modal's Cancel button
cancelBorrowEdit ==
    /\ borrowEditModal # NULL
    /\ borrowEditModal' = NULL
    /\ lastOp' = "cancelBorrowEdit"
    /\ toast' = ""
    /\ issued' = <<>>
    /\ UNCHANGED <<store, procurements, nextId, now, pendingStatusChange,
                   isStatusConfirmOpen, editingProcurement, isEditDialogOpen, deleteId,
                   isDeleteDialogOpen, selectedIds, isBulkDeleteDialogOpen>>

\* a validation that forgets the division
borrowedByMissing(borrowedBy, division) == borrowedBy = ""

\* saveBorrowChanges' validation: a required field is empty
borrowFieldsMissing(borrowedBy, division) == borrowedBy = "" \/ division = ""

\* the calls of saveBorrowChanges, in order
borrowCalls(m) ==
    <<  <<"update", m.procurement.id,
          [status |-> "active", borrowedBy |-> m.borrowedBy, division |-> m.division,
           borrowedDate |-> now + 1]>>  >>
    \o updateStackNumbersForFolder(procurements, m.procurement.folderId)

saveBorrowChanges ==
    /\ borrowEditModal # NULL
    /\ lastOp' = "saveBorrowChanges"
    /\ IF borrowFieldsMissing(borrowEditModal.borrowedBy, borrowEditModal.division)
       THEN /\ toast' = "error: Please fill in all required fields"
            /\ issued' = <<>>
            /\ UNCHANGED <<store, now, borrowEditModal>>
       ELSE /\ now < MaxTime
            /\ now' = now + 1
            /\ \E n \in Outcomes(borrowCalls(borrowEditModal)) :
                 /\ store' = Applied(borrowCalls(borrowEditModal), n)
                 /\ issued' = Issued(borrowCalls(borrowEditModal), n)
                 /\ IF n = Len(borrowCalls(borrowEditModal))
                    THEN /\ borrowEditModal' = NULL
                         /\ toast' = "success: File marked as borrowed"
                    ELSE /\ UNCHANGED borrowEditModal
                         /\ toast' = "error: Failed to update file status"
    /\ UNCHANGED <<procurements, nextId, pendingStatusChange, isStatusConfirmOpen,
                   editingProcurement, isEditDialogOpen, deleteId, isDeleteDialogOpen,
                   selectedIds, isBulkDeleteDialogOpen>>

\* ---- edit dialog ----
handleEdit(procurement) ==
    /\ NoDialogOpen
    /\ procurement \in procurements
    /\ editingProcurement' = procurement
    /\ isEditDialogOpen' = TRUE
    /\ lastOp' = "handleEdit"
    /\ toast' = ""
    /\ issued' = <<>>
    /\ UNCHANGED <<store, procurements, nextId, now, pendingStatusChange,
                   isStatusConfirmOpen, borrowEditModal, deleteId, isDeleteDialogOpen,
                   selectedIds, isBulkDeleteDialogOpen>>

\* the dialog's inputs: folder and status selects, borrower inputs (the
\* borrower inputs are disabled while the dialog shows status archived)
editField(field, val) ==
    /\ isEditDialogOpen
    /\ editingProcurement # NULL
    /\ field \in {"borrowedBy", "division"} => editingProcurement.status # "archived"
    /\ editingProcurement' = [editingProcurement EXCEPT ![field] = val]
    /\ editingProcurement' # editingProcurement
    /\ lastOp' = "setEditingProcurement"
    /\ toast' = ""
    /\ issued' = <<>>
    /\ UNCHANGED <<store, procurements, nextId, now, pendingStatusChange,
                   isStatusConfirmOpen, borrowEditModal, isEditDialogOpen, deleteId,
                   isDeleteDialogOpen, selectedIds, isBulkDeleteDialogOpen>>

\* the dialog's Cancel button
cancelEdit ==
    /\ isEditDialogOpen
    /\ isEditDialogOpen' = FALSE
    /\ lastOp' = "cancelEdit"
    /\ toast' = ""
    /\ issued' = <<>>
    /\ UNCHANGED <<store, procurements, nextId, now, pendingStatusChange,
                   isStatusConfirmOpen, borrowEditModal, editingProcurement, deleteId,
                   isDeleteDialogOpen, selectedIds, isBulkDeleteDialogOpen>>

\* the one call of handleSaveEdit: the whole edited record is the patch
saveEditCalls == << <<"update", editingProcurement.id, editingProcurement>> >>

handleSaveEdit ==
    /\ isEditDialogOpen
    /\ editingProcurement # NULL
    /\ lastOp' = "handleSaveEdit"
    /\ \E n \in Outcomes(saveEditCalls) :
         /\ store' = Applied(saveEditCalls, n)
         /\ issued' = Issued(saveEditCalls, n)
         /\ IF n = 1
            THEN /\ isEditDialogOpen' = FALSE
                 /\ editingProcurement' = NULL
                 /\ toast' = "success: Record updated successfully"
            ELSE /\ UNCHANGED <<isEditDialogOpen, editingProcurement>>
                 /\ toast' = "error: Failed to update record"
    /\ UNCHANGED <<procurements, nextId, now, pendingStatusChange, isStatusConfirmOpen,
                   borrowEditModal, deleteId, isDeleteDialogOpen, selectedIds,
                   isBulkDeleteDialogOpen>>

\* ---- delete ----
\* the row's trash button: setDeleteId and the AlertDialog opens
openDelete(id) ==
    /\ NoDialogOpen
    /\ \E p \in procurements : p.id = id
    /\ deleteId' = id
    /\ isDeleteDialogOpen' = TRUE
    /\ lastOp' = "setDeleteId"
    /\ toast' = ""
    /\ issued' = <<>>
    /\ UNCHANGED <<store, procurements, nextId, now, pendingStatusChange,
                   isStatusConfirmOpen, borrowEditModal, editingProcurement,
                   isEditDialogOpen, selectedIds, isBulkDeleteDialogOpen>>

cancelDelete ==
    /\ isDeleteDialogOpen
    /\ isDeleteDialogOpen' = FALSE
    /\ lastOp' = "cancelDelete"
    /\ toast' = ""
    /\ issued' = <<>>
    /\ UNCHANGED <<store, procurements, nextId, now, pendingStatusChange,
                   isStatusConfirmOpen, borrowEditModal, editingProcurement,
                   isEditDialogOpen, deleteId, selectedIds, isBulkDeleteDialogOpen>>

\* the calls of handleDeleteConfirm: the delete and nothing else
deleteCalls(id) == << <<"delete", id>> >>

handleDeleteConfirm ==
    /\ isDeleteDialogOpen
    /\ deleteId # Undefined
    /\ lastOp' = "handleDeleteConfirm"
    /\ isDeleteDialogOpen' = FALSE
    /\ \E n \in Outcomes(deleteCalls(deleteId)) :
         /\ store' = Applied(deleteCalls(deleteId), n)
         /\ issued' = Issued(deleteCalls(deleteId), n)
         /\ IF n = Len(deleteCalls(deleteId))
            THEN /\ toast' = "success: Record deleted successfully"
                 /\ deleteId' = Undefined
                 /\ selectedIds' = selectedIds \ {deleteId}
            ELSE /\ toast' = "error: Failed to delete record"
                 /\ UNCHANGED <<deleteId, selectedIds>>
    /\ UNCHANGED <<procurements, nextId, now, pendingStatusChange, isStatusConfirmOpen,
                   borrowEditModal, editingProcurement, isEditDialogOpen,
                   isBulkDeleteDialogOpen>>

\* a row's checkbox
handleSelectOne(id, checked) ==
    /\ NoDialogOpen
    /\ \E p \in procurements : p.id = id
    /\ selectedIds' = IF checked THEN selectedIds \cup {id} ELSE selectedIds \ {id}
    /\ selectedIds' # selectedIds
    /\ lastOp' = "handleSelectOne"
    /\ toast' = ""
    /\ issued' = <<>>
    /\ UNCHANGED <<store, procurements, nextId, now, pendingStatusChange,
                   isStatusConfirmOpen, borrowEditModal, editingProcurement,
                   isEditDialogOpen, deleteId, isDeleteDialogOpen,
                   isBulkDeleteDialogOpen>>

\* the Delete Selected button and its dialog's Cancel
setIsBulkDeleteDialogOpen(open) ==
    /\ IF open THEN NoDialogOpen /\ selectedIds # {} ELSE isBulkDeleteDialogOpen
    /\ isBulkDeleteDialogOpen' = open
    /\ lastOp' = "setIsBulkDeleteDialogOpen"
    /\ toast' = ""
    /\ issued' = <<>>
    /\ UNCHANGED <<store, procurements, nextId, now, pendingStatusChange,
                   isStatusConfirmOpen, borrowEditModal, editingProcurement,
                   isEditDialogOpen, deleteId, isDeleteDialogOpen, selectedIds>>

RECURSIVE IdSeq(_)
\* selectedIds as the array the handler maps over
IdSeq(S) ==
    IF S = {} THEN <<>>
    ELSE LET m == CHOOSE i \in S : \A j \in S : i <= j
         IN  <<m>> \o IdSeq(S \ {m})

\* a handler that deletes the first selected record only
firstDeleteOnly(ids) ==
    IF ids = {} THEN <<>> ELSE << <<"delete", IdSeq(ids)[1]>> >>

\* the calls of handleBulkDelete: Promise.all over one delete per id
bulkDeleteCalls(ids) == [i \in 1..Len(IdSeq(ids)) |-> <<"delete", IdSeq(ids)[i]>>]

\* handleBulkDelete; the deletes of `failed` reject, the others are applied
handleBulkDelete ==
    /\ isBulkDeleteDialogOpen
    /\ selectedIds # {}
    /\ lastOp' = "handleBulkDelete"
    /\ isBulkDeleteDialogOpen' = FALSE
    /\ issued' = bulkDeleteCalls(selectedIds)
    /\ \E failed \in (IF storeFaulty THEN SUBSET selectedIds ELSE {{}}) :
         /\ store' = ApplyCalls(store, bulkDeleteCalls(selectedIds \ failed))
         /\ IF failed = {}
            THEN /\ toast' = "success: records deleted successfully"
                 /\ selectedIds' = {}
            ELSE /\ toast' = "error: Failed to delete some records"
                 /\ UNCHANGED selectedIds
    /\ UNCHANGED <<procurements, nextId, now, pendingStatusChange, isStatusConfirmOpen,
                   borrowEditModal, editingProcurement, isEditDialogOpen, deleteId,
                   isDeleteDialogOpen>>

\* ---- another session on the same store ----
\* a write of another session: its calls are applied to the store, and this
\* session learns of them by the store's next push
remoteWrite(calls) ==
    /\ now < MaxTime
    /\ now' = now + 1
    /\ store' = ApplyCalls(store, calls)
    /\ lastOp' = "remoteWrite"
    /\ toast' = ""
    /\ issued' = <<>>
    /\ UNCHANGED <<procurements, nextId, pendingStatusChange, isStatusConfirmOpen,
                   borrowEditModal, editingProcurement, isEditDialogOpen, deleteId,
                   isDeleteDialogOpen, selectedIds, isBulkDeleteDialogOpen>>

\* saveBorrowChanges of a session whose list shows the store as it is
remoteBorrow(procurement, borrowedBy, division) ==
    /\ procurement \in store
    /\ procurement.status = "archived"
    /\ ~borrowFieldsMissing(borrowedBy, division)
    /\ remoteWrite(<<  <<"update", procurement.id,
                          [status |-> "active", borrowedBy |-> borrowedBy,
                           division |-> division, borrowedDate |-> now + 1]>>  >>
                   \o updateStackNumbersForFolder(store, procurement.folderId))

\* confirmReturnFile of a session whose list shows the store as it is
remoteReturn(procurement) ==
    /\ procurement \in store
    /\ procurement.status = "active"
    /\ remoteWrite(<<  <<"update", procurement.id,
                          [status |-> "archived", returnDate |-> now + 1]>>  >>
                   \o updateStackNumbersForFolder(store, procurement.folderId))

\* ---- Add Record page (contexts/DataContext.tsx, AddProcurement) ----
\* the record addProcurement creates from the form
newProcurement(folderId, status, date) ==
    [id |-> nextId, folderId |-> folderId, status |-> status, stackNumber |-> Undefined,
     dateAdded |-> date, borrowedBy |-> "", division |-> "",
     borrowedDate |-> Undefined, returnDate |-> Undefined]

\* a count that forgets the record being added
submitStackNumberZeroBased(procs, folderId) ==
    Cardinality({p \in procs : p.folderId = folderId /\ p.status = "archived"})

\* the stack number handleSubmit gives a new archived record
submitStackNumber(procs, folderId) ==
    Cardinality({p \in procs : p.folderId = folderId /\ p.status = "archived"}) + 1

\* the calls of handleSubmit, in order
submitCalls(folderId, status, date) ==
    <<  <<"add", nextId, newProcurement(folderId, status, date)>>  >>
    \o IF status = "archived"
       THEN <<  <<"update", nextId,
                  [stackNumber |-> submitStackNumber(procurements, folderId)]>>  >>
       ELSE <<>>

\* handleSubmit; folderId Undefined is the empty selection.  The list page is
\* not mounted while the form is shown: its component state starts afresh.
handleSubmit(folderId, status, date) ==
    /\ NoDialogOpen
    /\ lastOp' = "handleSubmit"
    /\ IF folderId = Undefined
       THEN /\ toast' = "error: Please fill in all required fields"
            /\ issued' = <<>>
            /\ UNCHANGED <<store, nextId>>
       ELSE /\ nextId <= MaxRecords + 1
            /\ \E n \in Outcomes(submitCalls(folderId, status, date)) :
                 /\ store' = Applied(submitCalls(folderId, status, date), n)
                 /\ issued' = Issued(submitCalls(folderId, status, date), n)
                 /\ nextId' = IF n >= 1 THEN nextId + 1 ELSE nextId
                 /\ toast' = IF n = Len(submitCalls(folderId, status, date))
                             THEN "success: File record added successfully"
                             ELSE "error: Failed to add file record"
    /\ pendingStatusChange' = NULL
    /\ editingProcurement' = NULL
    /\ deleteId' = Undefined
    /\ selectedIds' = {}
    /\ UNCHANGED <<procurements, now, isStatusConfirmOpen, borrowEditModal,
                   isEditDialogOpen, isDeleteDialogOpen, isBulkDeleteDialogOpen>>

\* ---- User Management page (contexts/DataContext.tsx, UserManagement) ----
\* a text is the sequence of its characters; an untouched input holds <<>>
Gmail      == <<"@", "g", "m", "a", "i", "l", ".", "c", "o", "m">>
AdminEmail == <<"a", "d", "m", "i", "n">> \o Gmail
\* what the user types into the dialogs
Emails     == {AdminEmail, <<"B", "o", "b", "@", "G", "m", "a", "i", "l", ".", "c", "o", "m">>,
               <<"a", "@", "o", "t", "h", "e", "r", ".", "c", "o", "m">>}
UserNames  == {<<"A", "l">>}
Passwords  == {<<"a", "b", "c", "1", "2", "3", "4", "5">>,
               <<"A", "b", "c", "1", "2", "3", "4", "5", "!">>}
Roles      == {"admin", "user"}
UserStatuses == {"active", "inactive"}

\* characters, and String.prototype.toLowerCase on a text
LowerOf ==
    [A |-> "a", B |-> "b", C |-> "c", D |-> "d", E |-> "e", F |-> "f", G |-> "g",
     H |-> "h", I |-> "i", J |-> "j", K |-> "k", L |-> "l", M |-> "m", N |-> "n",
     O |-> "o", P |-> "p", Q |-> "q", R |-> "r", S |-> "s", T |-> "t", U |-> "u",
     V |-> "v", W |-> "w", X |-> "x", Y |-> "y", Z |-> "z"]
lowerChar(c) == IF c \in DOMAIN LowerOf THEN LowerOf[c] ELSE c
toLowerCaseText(t) == [i \in 1..Len(t) |-> lowerChar(t[i])]

\* String.prototype.endsWith
endsWith(t, suffix) ==
    /\ Len(t) >= Len(suffix)
    /\ \A j \in 1..Len(suffix) : t[Len(t) - Len(suffix) + j] = suffix[j]

\* password rules that stop after the length
passwordLengthOnly(pw) ==
    IF Len(pw) < 8 THEN "Password must be at least 8 characters long" ELSE ""

\* the password rules, in the order validateUser tests them: length, /[A-Z]/,
\* /\d/, /[!@#$%^&*(),.?":{}|<>]/
passwordProblem(pw) ==
    LET test(chars) == \E i \in 1..Len(pw) : pw[i] \in chars
    IN  IF Len(pw) < 8 THEN "Password must be at least 8 characters long"
        ELSE IF ~test(DOMAIN LowerOf)
        THEN "Password must contain at least one uppercase letter"
        ELSE IF ~test({"0", "1", "2", "3", "4", "5", "6", "7", "8", "9"})
        THEN "Password must contain at least one number"
        ELSE IF ~test({"!", "@", "#", "$", "%", "^", "&", "*", "(", ")", ",", ".",
                       "?", "\"", ":", "{", "}", "|", "<", ">"})
        THEN "Password must contain at least one special character"
        ELSE ""

\* a validateUser that tests the address before the required fields
validateUserDomainFirst(data) ==
    IF ~endsWith(toLowerCaseText(data.email), Gmail)
    THEN "Email must be a '@gmail.com' address"
    ELSE IF data.name = <<>> \/ data.email = <<>> \/ data.password = <<>>
    THEN "Name, Email, and Password are required"
    ELSE passwordProblem(data.password)

\* the message validateUser shows, "" when it accepts
validateUser(data) ==
    IF data.name = <<>> \/ data.email = <<>> \/ data.password = <<>>
    THEN "Name, Email, and Password are required"
    ELSE IF ~endsWith(toLowerCaseText(data.email), Gmail)
    THEN "Email must be a '@gmail.com' address"
    ELSE passwordProblem(data.password)

emptyForm ==
    [name |-> <<>>, email |-> <<>>, password |-> <<>>, role |-> "user", status |-> "active"]

\* the primordial admin account
adminUser ==
    [id |-> 1, name |-> <<"A", "l">>, email |-> AdminEmail,
     password |-> <<"A", "b", "c", "1", "2", "3", "4", "5", "!">>,
     role |-> "admin", status |-> "active"]

updateUser(S, id, patch) == {IF u.id = id THEN Merge(u, patch) ELSE u : u \in S}
deleteUser(S, id) == {u \in S : u.id # id}
addUser(S, u) == S \cup {u}

InitUsers ==
    /\ users = {adminUser}
    /\ localUsers = {}
    /\ nextUserId = 2
    /\ selectedUser = NULL
    /\ formData = emptyForm
    /\ isEditOpen = FALSE
    /\ isAddOpen = FALSE

\* one call to the users collection
ApplyUserCall(S, c) ==
    IF c[1] = "addUser" THEN addUser(S, c[3])
    ELSE IF c[1] = "updateUser" THEN updateUser(S, c[2], c[3])
    ELSE deleteUser(S, c[2])

\* the users collection after the first n of `calls`
AppliedUsers(calls, n) == IF n = 0 THEN users ELSE ApplyUserCall(users, calls[1])

\* no user dialog is open and the page has received the last push
NoUserDialogOpen == ~isAddOpen /\ ~isEditOpen /\ localUsers = users

\* onUsersChange: the store pushes the users collection
PushUsers ==
    /\ localUsers # users
    /\ localUsers' = users
    /\ lastOp' = "onUsersChange"
    /\ toast' = ""
    /\ issued' = <<>>
    /\ UNCHANGED <<users, nextUserId, selectedUser, formData, isEditOpen, isAddOpen>>

\* the Add User button: resetForm(); setIsAddOpen(true)
openAdd ==
    /\ NoUserDialogOpen
    /\ formData' = emptyForm
    /\ selectedUser' = NULL
    /\ isAddOpen' = TRUE
    /\ lastOp' = "openAdd"
    /\ toast' = ""
    /\ issued' = <<>>
    /\ UNCHANGED <<users, localUsers, nextUserId, isEditOpen>>

\* an input of the Add User or Edit User dialog (neither shows the status)
setFormData(field, val) ==
    /\ isAddOpen \/ isEditOpen
    /\ formData' = [formData EXCEPT ![field] = val]
    /\ formData' # formData
    /\ lastOp' = "setFormData"
    /\ toast' = ""
    /\ issued' = <<>>
    /\ UNCHANGED <<users, localUsers, nextUserId, selectedUser, isEditOpen, isAddOpen>>

\* the dialogs' Cancel buttons
closeUserDialog ==
    /\ isAddOpen \/ isEditOpen
    /\ isAddOpen' = FALSE
    /\ isEditOpen' = FALSE
    /\ lastOp' = "closeUserDialog"
    /\ toast' = ""
    /\ issued' = <<>>
    /\ UNCHANGED <<users, localUsers, nextUserId, selectedUser, formData>>

\* the one call of handleAddUser
addUserCalls ==
    << <<"addUser", nextUserId,
         [id |-> nextUserId, name |-> formData.name, email |-> formData.email,
          password |-> formData.password, role |-> formData.role,
          status |-> formData.status]>> >>

handleAddUser ==
    /\ isAddOpen
    /\ lastOp' = "handleAddUser"
    /\ IF validateUser(formData) # ""
       THEN /\ toast' = validateUser(formData)
            /\ issued' = <<>>
            /\ UNCHANGED <<users, nextUserId, isAddOpen, formData, selectedUser>>
       ELSE /\ nextUserId <= MaxUsers
            /\ \E n \in Outcomes(addUserCalls) :
                 /\ users' = AppliedUsers(addUserCalls, n)
                 /\ issued' = addUserCalls
                 /\ IF n = 1
                    THEN /\ toast' = "success: User added successfully"
                         /\ nextUserId' = nextUserId + 1
                         /\ isAddOpen' = FALSE
                         /\ formData' = emptyForm
                         /\ selectedUser' = NULL
                    ELSE /\ toast' = "error: Failed to add user"
                         /\ UNCHANGED <<nextUserId, isAddOpen, formData, selectedUser>>
    /\ UNCHANGED <<localUsers, isEditOpen>>

\* a row's edit button
openEdit(user) ==
    /\ NoUserDialogOpen
    /\ user \in localUsers
    /\ selectedUser' = user
    /\ formData' = [name |-> user.name, email |-> user.email, password |-> user.password,
                    role |-> user.role, status |-> user.status]
    /\ isEditOpen' = TRUE
    /\ lastOp' = "openEdit"
    /\ toast' = ""
    /\ issued' = <<>>
    /\ UNCHANGED <<users, localUsers, nextUserId, isAddOpen>>

\* the one call of handleEditUser
editUserCalls ==
    << <<"updateUser", selectedUser.id,
         [name |-> formData.name, email |-> formData.email,
          password |-> formData.password, role |-> formData.role,
          status |-> formData.status]>> >>

handleEditUser ==
    /\ isEditOpen
    /\ selectedUser # NULL
    /\ lastOp' = "handleEditUser"
    /\ IF validateUser(formData) # ""
       THEN /\ toast' = validateUser(formData)
            /\ issued' = <<>>
            /\ UNCHANGED <<users, isEditOpen, formData, selectedUser>>
       ELSE \E n \in Outcomes(editUserCalls) :
                 /\ users' = AppliedUsers(editUserCalls, n)
                 /\ issued' = editUserCalls
                 /\ IF n = 1
                    THEN /\ toast' = "success: User updated successfully"
                         /\ isEditOpen' = FALSE
                         /\ formData' = emptyForm
                         /\ selectedUser' = NULL
                    ELSE /\ toast' = "error: Failed to update user"
                         /\ UNCHANGED <<isEditOpen, formData, selectedUser>>
    /\ UNCHANGED <<localUsers, nextUserId, isAddOpen>>

\* a guard that compares with the wrong address
isOtherAdmin(email) == email = <<"a", "d", "m", "i", "n", "@", "o", "t", "h", "e", "r", ".", "c", "o", "m">>

\* the Admin Protection test of handleDeleteUser and toggleStatus
isMainAdmin(email) == email = AdminEmail

\* handleDeleteUser(id); `confirmed` is the answer to confirm()
handleDeleteUser(id, confirmed) ==
    /\ NoUserDialogOpen
    /\ \E u \in localUsers : u.id = id
    /\ lastOp' = "handleDeleteUser"
    /\ LET userToDelete == CHOOSE u \in localUsers : u.id = id
           calls == << <<"deleteUser", id>> >>
       IN  IF isMainAdmin(userToDelete.email)
           THEN /\ toast' = "error: Cannot delete the main Admin user."
                /\ issued' = <<>>
                /\ UNCHANGED users
           ELSE IF ~confirmed
           THEN /\ toast' = ""
                /\ issued' = <<>>
                /\ UNCHANGED users
           ELSE \E n \in Outcomes(calls) :
                 /\ users' = AppliedUsers(calls, n)
                 /\ issued' = calls
                 /\ toast' = IF n = 1 THEN "success: User deleted"
                             ELSE "error: Failed to delete user"
    /\ UNCHANGED <<localUsers, nextUserId, selectedUser, formData, isEditOpen, isAddOpen>>

\* toggleStatus(user): a row's switch; a throwing updateUser is not caught
toggleStatus(user) ==
    /\ NoUserDialogOpen
    /\ user \in localUsers
    /\ lastOp' = "toggleStatus"
    /\ LET newStatus == IF user.status = "active" THEN "inactive" ELSE "active"
           calls == << <<"updateUser", user.id, [status |-> newStatus]>> >>
       IN  IF isMainAdmin(user.email)
           THEN /\ toast' = "error: Cannot change status of main Admin user."
                /\ issued' = <<>>
                /\ UNCHANGED users
           ELSE \E n \in Outcomes(calls) :
                 /\ users' = AppliedUsers(calls, n)
                 /\ issued' = calls
                 /\ toast' = IF n = 1 THEN "success: User set to " \o newStatus ELSE ""
    /\ UNCHANGED <<localUsers, nextUserId, selectedUser, formData, isEditOpen, isAddOpen>>

\* ---- calculateStackNumbers on its own (ProcurementList.tsx) ----
InitCalc ==
    /\ stackNumbers = <<>>
    /\ stackFolder = Undefined

\* calculateStackNumbers(procurements, folderId), its result kept
runCalculate(folderId) ==
    /\ stackNumbers' = calculateStackNumbers(procurements, folderId)
    /\ stackFolder' = folderId
    /\ lastOp' = "calculateStackNumbers"
    /\ UNCHANGED <<recVars, toast, issued>>

\* the writes of the map's entries, one per entry
stackMapCalls(map) ==
    [i \in 1..Len(map) |-> <<"update", map[i][1], [stackNumber |-> map[i][2]]>>]

\* every entry of the map written to the store, and the store's push received
applyStackMap ==
    /\ stackFolder # Undefined
    /\ store' = ApplyCalls(store, stackMapCalls(stackNumbers))
    /\ procurements' = store'
    /\ issued' = stackMapCalls(stackNumbers)
    /\ lastOp' = "applyStackMap"
    /\ toast' = ""
    /\ UNCHANGED <<nextId, now, pendingStatusChange, isStatusConfirmOpen, borrowEditModal,
                   editingProcurement, isEditDialogOpen, deleteId, isDeleteDialogOpen,
                   selectedIds, isBulkDeleteDialogOpen, calcVars>>

\* ---- the list's view state (ProcurementList.tsx) ----
\* text is a sequence of characters; <<>> is the empty string
emptyFilters ==
    [search |-> <<>>, cabinetId |-> "", shelfId |-> "", folderId |-> "",
     status |-> "", monthYear |-> "", urgencyLevel |-> ""]

emptyNodes == [cabinets |-> {}, shelves |-> {}, folders |-> {}]

InitView ==
    /\ filters = emptyFilters
    /\ statusFilters = <<>>
    /\ sortField = "date"
    /\ sortDirection = "asc"
    /\ currentPage = 1
    /\ cabinets = {}
    /\ shelves = {}
    /\ folders = {}

\* the page size of the list
itemsPerPage == 20

\* String.prototype.includes
includes(t, sub) ==
    \E i \in 0..(Len(t) - Len(sub)) : \A j \in 1..Len(sub) : t[i + j] = sub[j]

\* the effects that fill the filter bar's second and third select
filterAvailableShelves ==
    IF filters.cabinetId # ""
    THEN {sh \in shelves : sh.cabinetId = filters.cabinetId}
    ELSE {}
filterAvailableFolders ==
    IF filters.shelfId # ""
    THEN {fo \in folders : fo.shelfId = filters.shelfId}
    ELSE {}

\* the tests of filteredProcurements' filter
matchesSearch(p) ==
    \/ includes(toLowerCaseText(p.prNumber), toLowerCaseText(filters.search))
    \/ includes(toLowerCaseText(p.description), toLowerCaseText(filters.search))
matchesCabinet(p) ==
    filters.cabinetId = "" \/ filters.cabinetId = "all_cabinets"
        \/ p.cabinetId = filters.cabinetId
matchesShelf(p) ==
    filters.shelfId = "" \/ filters.shelfId = "all_shelves" \/ p.shelfId = filters.shelfId
matchesFolder(p) ==
    filters.folderId = "" \/ filters.folderId = "all_folders"
        \/ p.folderId = filters.folderId
\* a status test without the empty case
matchesStatusTicked(p) == \E i \in 1..Len(statusFilters) : statusFilters[i] = p.status
matchesStatus(p) ==
    Len(statusFilters) = 0 \/ \E i \in 1..Len(statusFilters) : statusFilters[i] = p.status
matchesUrgency(p) ==
    filters.urgencyLevel = "" \/ filters.urgencyLevel = "all_urgency"
        \/ p.urgencyLevel = filters.urgencyLevel
\* a filter that forgets the description
matchesPrNumberOnly(p) ==
    /\ includes(toLowerCaseText(p.prNumber), toLowerCaseText(filters.search))
    /\ matchesCabinet(p) /\ matchesShelf(p) /\ matchesFolder(p)
    /\ matchesStatus(p) /\ matchesUrgency(p)
matchesFilters(p) ==
    /\ matchesSearch(p) /\ matchesCabinet(p) /\ matchesShelf(p) /\ matchesFolder(p)
    /\ matchesStatus(p) /\ matchesUrgency(p)

\* String.prototype.localeCompare on texts of the letters a, A, b, B, x: the
\* letters decide first, then lower case before upper case
letterRank(c) == IF lowerChar(c) = "a" THEN 1 ELSE IF lowerChar(c) = "b" THEN 2 ELSE 3
caseRank(c) == IF c = lowerChar(c) THEN 0 ELSE 1
RECURSIVE lexCompare(_, _, _)
lexCompare(s, t, byCase) ==
    IF s = <<>> /\ t = <<>> THEN 0
    ELSE IF s = <<>> THEN -1
    ELSE IF t = <<>> THEN 1
    ELSE LET a == IF byCase THEN caseRank(Head(s)) ELSE letterRank(Head(s))
             b == IF byCase THEN caseRank(Head(t)) ELSE letterRank(Head(t))
         IN  IF a # b THEN a - b ELSE lexCompare(Tail(s), Tail(t), byCase)
localeCompare(s, t) ==
    IF lexCompare(s, t, FALSE) # 0 THEN lexCompare(s, t, FALSE) ELSE lexCompare(s, t, TRUE)

\* the comparison of filteredProcurements' sort, before the direction
comparison(a, b) ==
    IF sortField = "name" THEN localeCompare(a.description, b.description)
    ELSE IF sortField = "prNumber" THEN localeCompare(a.prNumber, b.prNumber)
    ELSE IF sortField = "date" THEN b.dateAdded - a.dateAdded
    ELSE IF sortField = "stackNumber"
    THEN (IF a.stackNumber # Undefined THEN a.stackNumber ELSE 999)
         - (IF b.stackNumber # Undefined THEN b.stackNumber ELSE 999)
    ELSE 0

\* a comparator whose date order is oldest first
listCompareOldestFirst(a, b) ==
    IF sortField = "date"
    THEN (IF sortDirection = "asc" THEN a.dateAdded - b.dateAdded
          ELSE b.dateAdded - a.dateAdded)
    ELSE IF sortDirection = "asc" THEN comparison(a, b) ELSE 0 - comparison(a, b)

\* the comparator of filteredProcurements' sort
listCompare(a, b) ==
    IF sortDirection = "asc" THEN comparison(a, b) ELSE 0 - comparison(a, b)

RECURSIVE InsertList(_, _)
InsertList(s, x) ==
    IF s = <<>> THEN <<x>>
    ELSE IF listCompare(s[Len(s)], x) > 0
         THEN Append(InsertList(Take(s, Len(s) - 1), x), s[Len(s)])
         ELSE Append(s, x)

RECURSIVE SortList(_)
\* Array.prototype.sort with listCompare: a stable sort
SortList(s) ==
    IF s = <<>> THEN <<>>
    ELSE InsertList(SortList(Take(s, Len(s) - 1)), s[Len(s)])

\* the rows of the list: filtered, then sorted
filteredProcurements == SortList(SeqById({p \in procurements : matchesFilters(p)}))

totalPages == (Len(filteredProcurements) + itemsPerPage - 1) \div itemsPerPage

\* Array.prototype.slice(first, last) of s
slice(s, first, last) ==
    LET lo == IF first < Len(s) THEN first ELSE Len(s)
        hi == IF last < Len(s) THEN last ELSE Len(s)
    IN  [i \in 1..(IF hi > lo THEN hi - lo ELSE 0) |-> s[lo + i]]

\* the rows of the page shown
paginatedProcurements ==
    slice(filteredProcurements, (currentPage - 1) * itemsPerPage, currentPage * itemsPerPage)

\* a handler of the filter bar ran: it shows no message and calls no store
viewStep(op) ==
    /\ lastOp' = op
    /\ toast' = ""
    /\ issued' = <<>>
    /\ UNCHANGED <<recVars, cabinets, shelves, folders>>

\* the search box
setSearch(text) ==
    /\ filters' = [filters EXCEPT !.search = text]
    /\ viewStep("setSearch")
    /\ UNCHANGED <<statusFilters, sortField, sortDirection, currentPage>>

\* the filter bar's Shelf select (top tier)
selectFilterCabinet(value) ==
    /\ value \in {"all_cabinets"} \cup {c.id : c \in cabinets}
    /\ value # filters.cabinetId
    /\ filters' = [filters EXCEPT !.cabinetId = value, !.shelfId = "", !.folderId = ""]
    /\ viewStep("selectFilterCabinet")
    /\ UNCHANGED <<statusFilters, sortField, sortDirection, currentPage>>

\* the filter bar's Cabinet select (mid tier)
selectFilterShelf(value) ==
    /\ filters.cabinetId # ""
    /\ value \in {"all_shelves"} \cup {sh.id : sh \in filterAvailableShelves}
    /\ value # filters.shelfId
    /\ filters' = [filters EXCEPT !.shelfId = value, !.folderId = ""]
    /\ viewStep("selectFilterShelf")
    /\ UNCHANGED <<statusFilters, sortField, sortDirection, currentPage>>

\* the filter bar's Folder select
selectFilterFolder(value) ==
    /\ filters.shelfId # ""
    /\ value \in {"all_folders"} \cup {fo.id : fo \in filterAvailableFolders}
    /\ value # filters.folderId
    /\ filters' = [filters EXCEPT !.folderId = value]
    /\ viewStep("selectFilterFolder")
    /\ UNCHANGED <<statusFilters, sortField, sortDirection, currentPage>>

\* prev.filter(s => s !== status)
without(seq, status) == SelectSeq(seq, LAMBDA x : x # status)

toggleStatusFilter(status) ==
    /\ statusFilters' = IF \E i \in 1..Len(statusFilters) : statusFilters[i] = status
                        THEN without(statusFilters, status)
                        ELSE Append(statusFilters, status)
    /\ viewStep("toggleStatusFilter")
    /\ UNCHANGED <<filters, sortField, sortDirection, currentPage>>

\* the Sort by select
setSortField(value) ==
    /\ value # sortField
    /\ sortField' = value
    /\ viewStep("setSortField")
    /\ UNCHANGED <<filters, statusFilters, sortDirection, currentPage>>

\* the sort direction button
toggleSortDirection ==
    /\ sortDirection' = IF sortDirection = "asc" THEN "desc" ELSE "asc"
    /\ viewStep("setSortDirection")
    /\ UNCHANGED <<filters, statusFilters, sortField, currentPage>>

clearFilters ==
    /\ filters' = emptyFilters
    /\ statusFilters' = <<>>
    /\ sortField' = "date"
    /\ sortDirection' = "asc"
    /\ currentPage' = 1
    /\ viewStep("clearFilters")

\* the Previous button
previousPage ==
    /\ totalPages > 1
    /\ currentPage # 1
    /\ currentPage' = IF currentPage - 1 > 1 THEN currentPage - 1 ELSE 1
    /\ viewStep("previousPage")
    /\ UNCHANGED <<filters, statusFilters, sortField, sortDirection>>

\* the Next button
nextPage ==
    /\ totalPages > 1
    /\ currentPage # totalPages
    /\ currentPage' = IF currentPage + 1 < totalPages THEN currentPage + 1 ELSE totalPages
    /\ viewStep("nextPage")
    /\ UNCHANGED <<filters, statusFilters, sortField, sortDirection>>

\* ---- DataProvider and the Add Record form (DataContext.tsx) ----
emptyAddForm ==
    [shelfId |-> "", cabinetId |-> "", folderId |-> "", status |-> "archived",
     previewStackNumber |-> Undefined]

InitProvider ==
    /\ provider = emptyNodes
    /\ addForm = emptyAddForm

\* ---- DataProvider ----
\* the provider's three hierarchy listeners: what the store's cabinets node
\* holds is kept as the provider's shelves, what its shelves node holds as the
\* provider's cabinets; each push is followed by the form's effects that
\* depend on the array it replaced
shelfEffect(form) ==
    IF form.shelfId # ""
    THEN [form EXCEPT !.cabinetId = "", !.folderId = "", !.previewStackNumber = Undefined]
    ELSE form

cabinetEffect(form) ==
    IF form.cabinetId # ""
    THEN [form EXCEPT !.folderId = "", !.previewStackNumber = Undefined]
    ELSE form

previewEffect(form) ==
    [form EXCEPT !.previewStackNumber =
        IF form.folderId # "" /\ form.status = "archived"
        THEN Cardinality({p \in procurements :
                             p.folderId = form.folderId /\ p.status = "archived"}) + 1
        ELSE Undefined]

formStep(op) ==
    /\ lastOp' = op
    /\ toast' = ""
    /\ issued' = <<>>
    /\ UNCHANGED nodes

onCabinetsChange ==
    /\ provider.shelves # nodes.cabinets
    /\ provider' = [provider EXCEPT !.shelves = nodes.cabinets]
    /\ addForm' = previewEffect(cabinetEffect(shelfEffect(addForm)))
    /\ formStep("onCabinetsChange")

onShelvesChange ==
    /\ provider.cabinets # nodes.shelves
    /\ provider' = [provider EXCEPT !.cabinets = nodes.shelves]
    /\ UNCHANGED addForm
    /\ formStep("onShelvesChange")

onFoldersChange ==
    /\ provider.folders # nodes.folders
    /\ provider' = [provider EXCEPT !.folders = nodes.folders]
    /\ addForm' = previewEffect(cabinetEffect(addForm))
    /\ formStep("onFoldersChange")

\* another client's write to the store's hierarchy: a mid-tier unit or a
\* folder is added to, or removed from, the node that holds its kind; the
\* provider's listener for that node fires in a later step
remoteHierarchyWrite(node, unit) ==
    /\ nodes' = [nodes EXCEPT ![node] =
                    IF unit \in nodes[node] THEN nodes[node] \ {unit}
                    ELSE nodes[node] \cup {unit}]
    /\ lastOp' = "remoteHierarchyWrite"
    /\ toast' = ""
    /\ issued' = <<>>
    /\ UNCHANGED <<provider, addForm>>

\* ---- Add Record form: location pickers ----
\* the options of the form's second and third picker, as its effects leave them
availableCabinets ==
    IF addForm.shelfId # ""
    THEN {s \in provider.shelves :
             "cabinetId" \in DOMAIN s /\ s.cabinetId = addForm.shelfId}
    ELSE {}

availableFolders ==
    IF addForm.cabinetId # ""
    THEN {f \in provider.folders : f.shelfId = addForm.cabinetId}
    ELSE {}

\* the form's first picker, labelled Shelf: its items are the provider's cabinets
setShelfId(val) ==
    /\ val \in {c.id : c \in provider.cabinets}
    /\ val # addForm.shelfId
    /\ addForm' = previewEffect(cabinetEffect(shelfEffect([addForm EXCEPT !.shelfId = val])))
    /\ UNCHANGED provider
    /\ formStep("setShelfId")

\* the form's second picker, labelled Cabinet
setCabinetId(val) ==
    /\ addForm.shelfId # ""
    /\ val \in {c.id : c \in availableCabinets}
    /\ val # addForm.cabinetId
    /\ addForm' = previewEffect(cabinetEffect([addForm EXCEPT !.cabinetId = val]))
    /\ UNCHANGED provider
    /\ formStep("setCabinetId")

\* the form's third picker, labelled Folder
setFolderId(val) ==
    /\ addForm.cabinetId # ""
    /\ val \in {f.id : f \in availableFolders}
    /\ val # addForm.folderId
    /\ addForm' = previewEffect([addForm EXCEPT !.folderId = val])
    /\ UNCHANGED provider
    /\ formStep("setFolderId")

\* the form's status select
setStatus(val) ==
    /\ val \in Statuses
    /\ val # addForm.status
    /\ addForm' = previewEffect([addForm EXCEPT !.status = val])
    /\ UNCHANGED provider
    /\ formStep("setStatus")

\* ---- Visual Browser ----
\* the units the browser lists under a chosen unit; at its top level it lists
\* the provider's shelves
getCabinetsForShelf(shelfId) ==
    {c \in provider.cabinets : "cabinetId" \in DOMAIN c /\ c.cabinetId = shelfId}

getFoldersForCabinet(cabinetId) ==
    {f \in provider.folders : f.shelfId = cabinetId}

\* ---- edit dialog: location selects ----
editAvailableShelves ==
    IF editingProcurement # NULL /\ editingProcurement.cabinetId # ""
    THEN {s \in shelves : s.cabinetId = editingProcurement.cabinetId}
    ELSE {}

editAvailableFolders ==
    IF editingProcurement # NULL /\ editingProcurement.shelfId # ""
    THEN {f \in folders : f.shelfId = editingProcurement.shelfId}
    ELSE {}

editLocationStep(edited) ==
    /\ isEditDialogOpen
    /\ editingProcurement # NULL
    /\ editingProcurement' = edited
    /\ lastOp' = "setEditingProcurement"
    /\ toast' = ""
    /\ issued' = <<>>
    /\ UNCHANGED <<store, procurements, nextId, now, pendingStatusChange,
                   isStatusConfirmOpen, borrowEditModal, isEditDialogOpen, deleteId,
                   isDeleteDialogOpen, selectedIds, isBulkDeleteDialogOpen>>

\* a Shelf select that keeps the folder of the record
withEditCabinetKeepsFolder(p, val) == [p EXCEPT !.cabinetId = val, !.shelfId = ""]

\* the record the dialog holds after its Shelf select (top tier) changes
withEditCabinet(p, val) == [p EXCEPT !.cabinetId = val, !.shelfId = "", !.folderId = ""]

selectEditCabinet(val) ==
    /\ isEditDialogOpen
    /\ editingProcurement # NULL
    /\ val \in {c.id : c \in cabinets}
    /\ val # editingProcurement.cabinetId
    /\ editLocationStep(withEditCabinet(editingProcurement, val))

selectEditShelf(val) ==
    /\ isEditDialogOpen
    /\ editingProcurement # NULL
    /\ editingProcurement.cabinetId # ""
    /\ val \in {s.id : s \in editAvailableShelves}
    /\ val # editingProcurement.shelfId
    /\ editLocationStep([editingProcurement EXCEPT !.shelfId = val, !.folderId = ""])

selectEditFolder(val) ==
    /\ isEditDialogOpen
    /\ editingProcurement # NULL
    /\ editingProcurement.shelfId # ""
    /\ val \in {f.id : f \in editAvailableFolders}
    /\ val # editingProcurement.folderId
    /\ editLocationStep([editingProcurement EXCEPT !.folderId = val])

\* ---- UserManagement: access control ----
adminSession == [role |-> "admin"]

\* the effect of UserManagement that runs when it mounts and when the
\* logged-in user changes, after the cleanup of its previous run
accessControl(user) ==
    IF user # NULL /\ user.role # "admin"
    THEN /\ toast' = "error: Unauthorized access"
         /\ location' = "/"
         /\ usersSubscribed' = FALSE
    ELSE /\ toast' = ""
         /\ location' = "/users"
         /\ usersSubscribed' = TRUE

\* the render guard: the page returns null unless the user is an admin
rendersUserManagement ==
    location = "/users" /\ currentUser # NULL /\ currentUser.role = "admin"

\* the route changes to the User Management page: the component mounts with
\* its state as constructed and its effect runs
mountUserManagement ==
    /\ location # "/users"
    /\ accessControl(currentUser)
    /\ localUsers' = {}
    /\ selectedUser' = NULL
    /\ formData' = emptyForm
    /\ isEditOpen' = FALSE
    /\ isAddOpen' = FALSE
    /\ lastOp' = "mountUserManagement"
    /\ issued' = <<>>
    /\ UNCHANGED <<users, nextUserId, currentUser>>

\* the route changes away: the effect's cleanup ends the subscription
unmountUserManagement ==
    /\ location = "/users"
    /\ location' = "/"
    /\ usersSubscribed' = FALSE
    /\ lastOp' = "unmountUserManagement"
    /\ toast' = ""
    /\ issued' = <<>>
    /\ UNCHANGED <<userVars, currentUser>>

\* useAuth delivers another user (login, logout, session restored)
setCurrentUser(user) ==
    /\ user # currentUser
    /\ currentUser' = user
    /\ IF location = "/users"
       THEN accessControl(user)
       ELSE toast' = "" /\ UNCHANGED <<location, usersSubscribed>>
    /\ lastOp' = "setCurrentUser"
    /\ issued' = <<>>
    /\ UNCHANGED userVars

\* the Visual Browser as constructed; then the same with an admin logged in
\* on the User Management page
NullId == "null"

InitBrowse ==
    /\ viewMode = "shelves"
    /\ selectedShelfId = NullId
    /\ selectedCabinetId = NullId
    /\ selectedFolderId = NullId
    /\ selectedFile = NULL

InitPages ==
    /\ currentUser = adminSession
    /\ usersSubscribed = TRUE
    /\ location = "/users"
    /\ InitBrowse

\* ---- Visual Browser: navigation ----
getFilesForFolder(folderId) == {p \in procurements : p.folderId = folderId}

browseStep(op) ==
    /\ selectedFile = NULL
    /\ lastOp' = op
    /\ toast' = ""
    /\ issued' = <<>>
    /\ UNCHANGED selectedFile

handleSelectShelf(shelfId) ==
    /\ viewMode = "shelves"
    /\ shelfId \in {s.id : s \in provider.shelves}
    /\ selectedShelfId' = shelfId
    /\ viewMode' = "cabinets"
    /\ browseStep("handleSelectShelf")
    /\ UNCHANGED <<selectedCabinetId, selectedFolderId>>

handleSelectCabinet(cabinetId) ==
    /\ viewMode = "cabinets"
    /\ cabinetId \in {c.id : c \in getCabinetsForShelf(selectedShelfId)}
    /\ selectedCabinetId' = cabinetId
    /\ viewMode' = "folders"
    /\ browseStep("handleSelectCabinet")
    /\ UNCHANGED <<selectedShelfId, selectedFolderId>>

handleSelectFolder(folderId) ==
    /\ viewMode = "folders"
    /\ folderId \in {f.id : f \in getFoldersForCabinet(selectedCabinetId)}
    /\ selectedFolderId' = folderId
    /\ viewMode' = "files"
    /\ browseStep("handleSelectFolder")
    /\ UNCHANGED <<selectedShelfId, selectedCabinetId>>

\* a file card opens the file dialog; closing the dialog clears it
handleSelectFile(file) ==
    /\ viewMode = "files"
    /\ selectedFile = NULL
    /\ file \in getFilesForFolder(selectedFolderId)
    /\ selectedFile' = file
    /\ lastOp' = "handleSelectFile"
    /\ toast' = ""
    /\ issued' = <<>>
    /\ UNCHANGED <<viewMode, selectedShelfId, selectedCabinetId, selectedFolderId>>

closeFile ==
    /\ selectedFile # NULL
    /\ selectedFile' = NULL
    /\ lastOp' = "closeFile"
    /\ toast' = ""
    /\ issued' = <<>>
    /\ UNCHANGED <<viewMode, selectedShelfId, selectedCabinetId, selectedFolderId>>

\* an Up One Level that keeps the selection of the level it leaves
goBackKeepsSelection ==
    /\ viewMode # "shelves"
    /\ viewMode' = IF viewMode = "files" THEN "folders"
                   ELSE IF viewMode = "folders" THEN "cabinets" ELSE "shelves"
    /\ UNCHANGED <<selectedShelfId, selectedCabinetId, selectedFolderId>>
    /\ browseStep("goBack")

\* the Up One Level button, shown below the top level
goBack ==
    /\ viewMode # "shelves"
    /\ IF viewMode = "files"
       THEN /\ viewMode' = "folders"
            /\ selectedFolderId' = NullId
            /\ UNCHANGED <<selectedShelfId, selectedCabinetId>>
       ELSE IF viewMode = "folders"
       THEN /\ viewMode' = "cabinets"
            /\ selectedCabinetId' = NullId
            /\ UNCHANGED <<selectedShelfId, selectedFolderId>>
       ELSE /\ viewMode' = "shelves"
            /\ selectedShelfId' = NullId
            /\ UNCHANGED <<selectedCabinetId, selectedFolderId>>
    /\ browseStep("goBack")

\* the breadcrumbs: STORAGE, the chosen shelf, the chosen cabinet
breadcrumb(level) ==
    /\ \/ /\ level = "shelves"
          /\ selectedShelfId' = NullId
          /\ selectedCabinetId' = NullId
       \/ /\ level = "cabinets"
          /\ selectedShelfId # NullId
          /\ selectedCabinetId' = NullId
          /\ UNCHANGED selectedShelfId
       \/ /\ level = "folders"
          /\ selectedCabinetId # NullId
          /\ UNCHANGED <<selectedShelfId, selectedCabinetId>>
    /\ viewMode' = level
    /\ selectedFolderId' = NullId
    /\ browseStep("breadcrumb")

\* ---- specifications ----
\* the list's view state, the provider and the Add Record form as constructed,
\* over a store with no cabinets, shelves or folders
InitRest == InitCalc /\ InitView /\ InitProvider /\ InitPages /\ nodes = emptyNodes

\* the store is reliable or faulty, and stays so
Init == InitRecords({}) /\ InitUsers /\ InitRest /\ storeFaulty \in BOOLEAN

\* the same over a store that already holds one archived record
InitSeeded ==
    InitRecords({seedRecord}) /\ InitUsers /\ InitRest /\ storeFaulty \in BOOLEAN

\* Add Record and the store's push, common to every use of the record pages
NextAdd ==
    \/ PushProcurements
    \/ \E f \in FolderIds \cup {Undefined}, st \in Statuses, d \in Dates :
          handleSubmit(f, st, d)

\* the borrow / return flow of the list
NextStatus ==
    \/ \E p \in procurements, st \in Statuses : handleStatusChange(p, st)
    \/ closeStatusConfirm
    \/ proceedStatusChange
    \/ \E b \in Names, d \in Divisions : setBorrowFields(b, d)
    \/ cancelBorrowEdit
    \/ saveBorrowChanges

\* the edit dialog of the list
NextEdit ==
    \/ \E p \in procurements : handleEdit(p)
    \/ \E v \in FolderIds : editField("folderId", v)
    \/ \E v \in Statuses : editField("status", v)
    \/ \E v \in Names : editField("borrowedBy", v)
    \/ \E v \in Divisions : editField("division", v)
    \/ cancelEdit
    \/ handleSaveEdit

\* single and bulk delete of the list
NextDelete ==
    \/ \E id \in Ids : openDelete(id)
    \/ cancelDelete
    \/ handleDeleteConfirm
    \/ \E id \in Ids, c \in BOOLEAN : handleSelectOne(id, c)
    \/ \E o \in BOOLEAN : setIsBulkDeleteDialogOpen(o)
    \/ handleBulkDelete

\* the User Management page
NextUsers ==
    \/ PushUsers
    \/ openAdd
    \/ \E v \in UserNames : setFormData("name", v)
    \/ \E v \in Emails : setFormData("email", v)
    \/ \E v \in Passwords : setFormData("password", v)
    \/ \E v \in Roles : setFormData("role", v)
    \/ closeUserDialog
    \/ handleAddUser
    \/ \E u \in localUsers : openEdit(u)
    \/ handleEditUser
    \/ \E u \in localUsers, c \in BOOLEAN : handleDeleteUser(u.id, c)
    \/ \E u \in localUsers : toggleStatus(u)

Frame == UNCHANGED <<userVars, storeFaulty, calcVars, viewVars, formVars, authVars, browseVars>>

\* adding, borrowing and returning records
SpecStatus == Init /\ [][(NextAdd \/ NextStatus) /\ Frame]_vars

\* adding and editing records
SpecEdit == Init /\ [][(NextAdd \/ NextEdit) /\ Frame]_vars

\* the edit dialog used to move a record to another folder, while another
\* session borrows and returns records of the same store
NextShared ==
    \/ PushProcurements
    \/ \E p \in procurements : handleEdit(p)
    \/ \E v \in FolderIds : editField("folderId", v)
    \/ cancelEdit
    \/ handleSaveEdit
    \/ \E p \in store, b \in Names, d \in Divisions : remoteBorrow(p, b, d)
    \/ \E p \in store : remoteReturn(p)

SpecShared == InitSeeded /\ [][NextShared /\ Frame]_vars

\* adding and deleting records
SpecDelete == InitSeeded /\ [][(NextAdd \/ NextDelete) /\ Frame]_vars

\* managing users; the record pages stay as constructed
SpecUsers ==
    Init /\ [][NextUsers /\ UNCHANGED <<recVars, storeFaulty, calcVars, viewVars, formVars, authVars, browseVars>>]_vars

\* the record collections calculateStackNumbers is run on: one record per id
CalcFields ==
    [folderId : FolderIds, status : Statuses,
     stackNumber : {Undefined} \cup Ids, dateAdded : Dates]
CalcCollections ==
    {{[id |-> i, folderId |-> f[i].folderId, status |-> f[i].status,
       stackNumber |-> f[i].stackNumber, dateAdded |-> f[i].dateAdded,
       borrowedBy |-> "", division |-> "",
       borrowedDate |-> Undefined, returnDate |-> Undefined] : i \in Ids}
     : f \in [Ids -> CalcFields]}

\* the list showing a collection the store already holds
InitLoaded(collections) ==
    /\ store \in collections
    /\ procurements = store
    /\ nextId = 2
    /\ now = 0
    /\ pendingStatusChange = NULL
    /\ isStatusConfirmOpen = FALSE
    /\ borrowEditModal = NULL
    /\ editingProcurement = NULL
    /\ isEditDialogOpen = FALSE
    /\ deleteId = Undefined
    /\ isDeleteDialogOpen = FALSE
    /\ selectedIds = {}
    /\ isBulkDeleteDialogOpen = FALSE
    /\ toast = ""
    /\ lastOp = "init"
    /\ issued = <<>>

InitCalcRun == InitLoaded(CalcCollections) /\ InitUsers /\ InitRest /\ storeFaulty = FALSE

NextCalc ==
    \/ \E f \in FolderIds : runCalculate(f)
    \/ applyStackMap

\* calculateStackNumbers run on every small collection, and its map written back
SpecCalc ==
    InitCalcRun /\ [][NextCalc /\ UNCHANGED <<userVars, storeFaulty, viewVars, formVars, authVars, browseVars>>]_vars

\* a store with two shelves (top tier), two cabinets (mid tier) and three folders
sampleNodes ==
    [cabinets |-> {[id |-> "S1"], [id |-> "S2"]},
     shelves  |-> {[id |-> "C1", cabinetId |-> "S1"], [id |-> "C2", cabinetId |-> "S2"]},
     folders  |-> {[id |-> "F1", shelfId |-> "C1"], [id |-> "F2", shelfId |-> "C1"],
                   [id |-> "F3", shelfId |-> "C2"]}]

\* a record of the list with the fields the filter bar and the sort read
viewRecord(id, prNumber, description, cabinetId, shelfId, folderId, status, urgency, dateAdded, stackNumber) ==
    [id |-> id, prNumber |-> prNumber, description |-> description,
     cabinetId |-> cabinetId, shelfId |-> shelfId, folderId |-> folderId,
     status |-> status, urgencyLevel |-> urgency, dateAdded |-> dateAdded,
     stackNumber |-> stackNumber, borrowedBy |-> "", division |-> "",
     borrowedDate |-> Undefined, returnDate |-> Undefined]

ViewRecords ==
    {viewRecord(1, <<"A", "b">>, <<"x">>, "S1", "C1", "F1", "archived", "high", 1, 2),
     viewRecord(2, <<"b">>, <<"a", "B">>, "S1", "C1", "F1", "active", "medium", 2, Undefined),
     viewRecord(3, <<"a", "b">>, <<"B">>, "S1", "C1", "F2", "archived", "medium", 2, 1),
     viewRecord(4, <<"B">>, <<"x", "a">>, "S2", "C2", "F3", "active", "high", 1, Undefined)}

\* more records than one page holds: one borrowed, the others archived
PageRecords ==
    {viewRecord(i, <<"a">>, <<"x">>, "S1", "C1", "F1",
                IF i = 1 THEN "active" ELSE "archived", "medium", 1, Undefined)
     : i \in 1..(itemsPerPage + 1)}

ViewCollections == SUBSET ViewRecords

SearchTexts == {<<>>, <<"A", "B">>}
UrgencyFilters == {"", "all_urgency", "high"}
SortFields == {"name", "prNumber", "date", "stackNumber"}

\* the list as constructed, showing a collection the store already holds; the
\* urgency filter, which no control of the page sets, is drawn as an input
InitViewRun(collections) ==
    /\ InitLoaded(collections) /\ InitUsers /\ InitCalc /\ InitProvider /\ InitPages
    /\ storeFaulty = FALSE
    /\ nodes = sampleNodes
    /\ filters \in {[emptyFilters EXCEPT !.urgencyLevel = u] : u \in UrgencyFilters}
    /\ statusFilters = <<>>
    /\ sortField = "date"
    /\ sortDirection = "asc"
    /\ currentPage = 1
    /\ cabinets = nodes.cabinets
    /\ shelves = nodes.shelves
    /\ folders = nodes.folders

NextView ==
    \/ \E t \in SearchTexts : setSearch(t)
    \/ \E v \in {"all_cabinets", "S1", "S2"} : selectFilterCabinet(v)
    \/ \E v \in {"all_shelves", "C1", "C2"} : selectFilterShelf(v)
    \/ \E v \in {"all_folders", "F1", "F2", "F3"} : selectFilterFolder(v)
    \/ \E st \in Statuses : toggleStatusFilter(st)
    \/ \E f \in SortFields : setSortField(f)
    \/ toggleSortDirection
    \/ clearFilters

\* the list's filter bar and sort controls over every small collection
SpecView ==
    InitViewRun(ViewCollections)
    /\ [][NextView /\ UNCHANGED <<userVars, storeFaulty, calcVars, formVars, authVars, browseVars>>]_vars

NextPages ==
    \/ \E t \in SearchTexts : setSearch(t)
    \/ \E st \in Statuses : toggleStatusFilter(st)
    \/ \E f \in SortFields : setSortField(f)
    \/ clearFilters
    \/ previousPage
    \/ nextPage

\* the list's pages over a collection that fills more than one page
SpecPages ==
    InitViewRun({PageRecords})
    /\ [][NextPages /\ UNCHANGED <<userVars, storeFaulty, calcVars, formVars, authVars, browseVars>>]_vars

\* the form's Cabinet and Folder pickers have no step here: under the
\* provider their option lists stay empty, so setCabinetId and setFolderId
\* are never enabled
NextPick ==
    \/ /\ \/ \E v \in {"all_cabinets", "S1", "S2"} : selectFilterCabinet(v)
          \/ \E v \in {"all_shelves", "C1", "C2"} : selectFilterShelf(v)
          \/ \E v \in {"all_folders", "F1", "F2", "F3"} : selectFilterFolder(v)
       /\ UNCHANGED formVars
    \/ /\ \/ \E p \in procurements : handleEdit(p)
          \/ \E v \in {"S1", "S2"} : selectEditCabinet(v)
          \/ \E v \in {"C1", "C2"} : selectEditShelf(v)
          \/ \E v \in {"F1", "F2", "F3"} : selectEditFolder(v)
          \/ cancelEdit
       /\ UNCHANGED <<viewVars, formVars>>
    \/ /\ \/ onCabinetsChange
          \/ onShelvesChange
          \/ onFoldersChange
          \/ \E v \in {"S1", "S2", "C1", "C2"} : setShelfId(v)
          \/ \E v \in Statuses : setStatus(v)
       /\ UNCHANGED <<recVars, viewVars>>

\* the three places that pick a location: the list's filter bar, its edit
\* dialog, and the Add Record form under the provider, before any listener
\* of the provider has fired
SpecPick ==
    InitViewRun({{p \in ViewRecords : p.id \in {1, 4}}})
    /\ [][NextPick /\ UNCHANGED <<userVars, storeFaulty, calcVars, authVars, browseVars>>]_vars

\* what the dialogs hold when Save is pressed: every combination of a name,
\* an address and a password that passes or fails each rule of validateUser
ValidateForms ==
    LET local == <<"a">>
        names == {<<>>, <<"A", "l">>}
        emails == {<<>>, Gmail, local \o Gmail,
                   <<"A", "@", "G", "M", "A", "I", "L", ".", "C", "O", "M">>,
                   <<"a", "@", "o", "t", "h", "e", "r", ".", "c", "o", "m">>,
                   <<"a", "@", "g", "m", "a", "i", "l", ".", "c", "o">>,
                   local \o Gmail \o <<".", "a", "u">>}
        passwords == {<<>>, <<"A", "b", "c", "1", "2", "3", "4", "5", "!">>}
                     \cup {<<c[1], c[2], c[3], c[4]>> \o pad :
                              c \in [1..4 -> {"a", "A", "1", "!"}],
                              pad \in {<<"a", "a", "a">>, <<"a", "a", "a", "a">>}}
    IN  {[emptyForm EXCEPT !.name = n, !.email = e, !.password = pw] :
            n \in names, e \in emails, pw \in passwords}

\* Save pressed in the Add User dialog, or in the Edit User dialog opened on
\* the admin account, with the form filled in
InitValidate ==
    /\ InitRecords({}) /\ InitRest /\ storeFaulty \in BOOLEAN
    /\ users = {adminUser}
    /\ localUsers = users
    /\ nextUserId = 2
    /\ formData \in ValidateForms
    /\ \/ isAddOpen = TRUE /\ isEditOpen = FALSE /\ selectedUser = NULL
       \/ isAddOpen = FALSE /\ isEditOpen = TRUE /\ selectedUser = adminUser

SpecValidate ==
    /\ InitValidate
    /\ [][(handleAddUser \/ handleEditUser \/ PushUsers)
          /\ UNCHANGED <<recVars, storeFaulty, calcVars, viewVars, formVars, authVars, browseVars>>]_vars

Sessions == {NULL, adminSession, [role |-> "user"]}

\* the User Management page is entered and left while useAuth delivers a
\* user, an admin or nobody; the page's controls work while it renders
NextAccess ==
    \/ mountUserManagement
    \/ unmountUserManagement
    \/ \E u \in Sessions : setCurrentUser(u)
    \/ usersSubscribed /\ PushUsers /\ UNCHANGED authVars
    \/ /\ rendersUserManagement
       /\ \/ openAdd
          \/ \E v \in UserNames : setFormData("name", v)
          \/ \E v \in Emails : setFormData("email", v)
          \/ \E v \in Roles : setFormData("role", v)
          \/ closeUserDialog
       /\ UNCHANGED authVars

\* the application as constructed, for each session it can start with
InitAccess ==
    /\ InitRecords({}) /\ InitUsers /\ InitCalc /\ InitView /\ InitProvider /\ InitBrowse
    /\ nodes = emptyNodes
    /\ storeFaulty = FALSE
    /\ currentUser \in Sessions
    /\ usersSubscribed = FALSE
    /\ location = "/"

SpecAccess ==
    /\ InitAccess
    /\ [][NextAccess /\ UNCHANGED <<recVars, storeFaulty, calcVars, viewVars, formVars,
                                     browseVars>>]_vars

\* the Visual Browser over a loaded collection while the provider receives
\* the hierarchy
NextBrowse ==
    \/ /\ \/ onCabinetsChange
          \/ onShelvesChange
          \/ onFoldersChange
       /\ UNCHANGED browseVars
    \/ /\ \/ \E v \in {"S1", "S2"} : handleSelectShelf(v)
          \/ \E v \in {"C1", "C2"} : handleSelectCabinet(v)
          \/ \E v \in {"F1", "F2", "F3"} : handleSelectFolder(v)
          \/ \E p \in procurements : handleSelectFile(p)
          \/ closeFile
          \/ goBack
          \/ \E level \in {"shelves", "cabinets", "folders"} : breadcrumb(level)
       /\ UNCHANGED formVars

\* the pages as constructed over a store that holds `collections` and the
\* hierarchy `layouts` offers
InitHierarchy(collections, layouts) ==
    /\ InitLoaded(collections) /\ InitUsers /\ InitCalc /\ InitView /\ InitProvider
    /\ InitPages
    /\ nodes \in layouts
    /\ storeFaulty = FALSE

SpecBrowse ==
    /\ InitHierarchy(ViewCollections, {sampleNodes})
    /\ [][NextBrowse /\ UNCHANGED <<recVars, userVars, storeFaulty, calcVars, viewVars,
                                     authVars>>]_vars

\* the hierarchy of sampleNodes stored under the other node names: the
\* shelves node holds the top-tier units and the cabinets node the mid-tier
\* units, so the provider's `cabinets` are the top tier the form's first
\* picker lists and its `shelves` carry the parent reference its second reads
pickableNodes ==
    [cabinets |-> sampleNodes.shelves,
     shelves  |-> sampleNodes.cabinets,
     folders  |-> sampleNodes.folders]

\* the units another client adds or removes while the form is open
extraUnit == [id |-> "C3", cabinetId |-> "S2"]
extraFolder == [id |-> "F4", shelfId |-> "C2"]

NextForm ==
    \/ onCabinetsChange
    \/ onShelvesChange
    \/ onFoldersChange
    \/ \E v \in {"S1", "S2", "C1", "C2"} : setShelfId(v)
    \/ \E v \in {"S1", "S2", "C1", "C2", "C3"} : setCabinetId(v)
    \/ \E v \in {"F1", "F2", "F3", "F4"} : setFolderId(v)
    \/ \E v \in Statuses : setStatus(v)
    \/ remoteHierarchyWrite(IF extraUnit.cabinetId \in {c.id : c \in nodes.cabinets}
                            THEN "shelves" ELSE "cabinets", extraUnit)
    \/ remoteHierarchyWrite("folders", extraFolder)

\* the Add Record form under the provider while other clients change the
\* hierarchy, over a store in either layout
SpecForm ==
    /\ InitHierarchy({{p \in ViewRecords : p.id \in {1, 4}}}, {sampleNodes, pickableNodes})
    /\ [][NextForm /\ UNCHANGED <<recVars, userVars, storeFaulty, calcVars, viewVars,
                                   authVars, browseVars>>]_vars

\* three archived records of folder 1 with every choice of stack numbers and
\* of days added
OrderCollections ==
    {{[id |-> i, folderId |-> 1, status |-> "archived",
       stackNumber |-> f[i][1], dateAdded |-> f[i][2],
       borrowedBy |-> "", division |-> "",
       borrowedDate |-> Undefined, returnDate |-> Undefined] : i \in Ids}
     : f \in [Ids -> ({Undefined} \cup Ids) \X Ids]}

\* calculateStackNumbers run on a folder of three archived records
InitOrder ==
    InitLoaded(OrderCollections) /\ InitUsers /\ InitRest /\ storeFaulty = FALSE

SpecOrder ==
    /\ InitOrder
    /\ [][NextCalc /\ UNCHANGED <<userVars, storeFaulty, viewVars, formVars, authVars,
                                   browseVars>>]_vars

\* ---- properties ----
\* the archived records of folder f in collection S
archivedIn(S, f) == {p \in S : p.folderId = f /\ p.status = "archived"}

\* the stack numbers of folder f are exactly 1..k, each used once
Contiguous(S, f) ==
    /\ {p.stackNumber : p \in archivedIn(S, f)} = 1..Cardinality(archivedIn(S, f))
    /\ \A p, q \in archivedIn(S, f) : p.stackNumber = q.stackNumber => p = q

\* the last handler was a borrow or a return and every call of it succeeded
BorrowDone == lastOp = "saveBorrowChanges" /\ toast = "success: File marked as borrowed"
ReturnDone ==
    lastOp = "proceedStatusChange" /\ toast = "success: File returned and marked as archived"

\* the record the last handler's first call was about, as the store holds it
Target == CHOOSE p \in store : p.id = issued[1][2]
HasTarget == issued # <<>> /\ \E p \in store : p.id = issued[1][2]

\* C1: after updateStackNumbersForFolder(F) has completed in a borrow or a
\* return, the archived records of F hold exactly the stack numbers 1..k.
C1_RenumberedFolderIsContiguous ==
    ((BorrowDone \/ ReturnDone) /\ HasTarget) => Contiguous(store, Target.folderId)

\* C2: with every write completed, a borrowed record has no stackNumber.
C2_BorrowedHasNoStackNumber ==
    ~storeFaulty => \A p \in store : p.status = "active" => p.stackNumber = Undefined

\* C3: with every write completed, no two archived records of a folder hold
\* the same stack number.
C3_NoDuplicateStackNumber ==
    ~storeFaulty =>
        \A p, q \in store :
            (/\ p.id # q.id
             /\ p.folderId = q.folderId
             /\ p.status = "archived" /\ q.status = "archived"
             /\ p.stackNumber # Undefined)
            => p.stackNumber # q.stackNumber

\* the 1-based place of record p among the archived records of its folder
positionOf(S, p) ==
    CHOOSE i \in 1..Len(availableInFolder(S, p.folderId)) :
        availableInFolder(S, p.folderId)[i].id = p.id

\* C4: after a return that succeeded, the returned record is archived, has a
\* returnDate, and its stackNumber is defined and is its position in the folder.
C4_ReturnedRecordIsNumbered ==
    (ReturnDone /\ HasTarget) =>
        /\ Target.status = "archived"
        /\ Target.returnDate # Undefined
        /\ Target.stackNumber # Undefined
        /\ Target.stackNumber = positionOf(store, Target)

\* the last handler was a delete and every call of it succeeded
DeleteDone ==
    \/ lastOp = "handleDeleteConfirm" /\ toast = "success: Record deleted successfully"
    \/ lastOp = "handleBulkDelete" /\ toast = "success: records deleted successfully"

\* C5: after a delete of archived records has completed, the archived records
\* left in each affected folder hold the stack numbers 1..k again.
C5_DeleteRenumbersFolder ==
    DeleteDone =>
        \A i \in 1..Len(issued) : \A d \in procurements :
            (d.id = issued[i][2] /\ d.status = "archived") => Contiguous(store, d.folderId)

\* C6: a record's status goes from archived to borrowed only in a step whose
\* write carries a borrowedBy and a division, both non-empty, and sets
\* borrowedDate to the time of the step.
C6_BorrowNeedsDetails ==
    [][\A p \in store : \A q \in store' :
          (p.id = q.id /\ p.status = "archived" /\ q.status = "active")
          => \E i \in 1..Len(issued') :
                /\ issued'[i][1] = "update" /\ issued'[i][2] = p.id
                /\ {"status", "borrowedBy", "division", "borrowedDate"}
                      \subseteq DOMAIN issued'[i][3]
                /\ issued'[i][3].status = "active"
                /\ issued'[i][3].borrowedBy # ""
                /\ issued'[i][3].division # ""
                /\ issued'[i][3].borrowedDate # Undefined
                /\ issued'[i][3].borrowedDate = now']_vars

\* C7: saveBorrowChanges with an empty borrowedBy or an empty division shows
\* the validation message, issues no call, leaves the store as it was and
\* leaves the modal open with its contents.
C7_EmptyBorrowFieldsRejected ==
    [][(/\ lastOp' = "saveBorrowChanges"
        /\ borrowEditModal # NULL
        /\ (borrowEditModal.borrowedBy = "" \/ borrowEditModal.division = ""))
       => /\ toast' = "error: Please fill in all required fields"
          /\ issued' = <<>>
          /\ store' = store
          /\ borrowEditModal' = borrowEditModal]_vars

\* a save was rejected with exactly one of the two fields filled in
C7_Witness ==
    /\ lastOp = "saveBorrowChanges"
    /\ toast = "error: Please fill in all required fields"
    /\ borrowEditModal # NULL
    /\ borrowEditModal.borrowedBy # ""
    /\ borrowEditModal.division = ""

\* a call that changes a record's status the way a return / a borrow does
IsReturnWrite(c) ==
    c[1] = "update" /\ DOMAIN c[3] = {"status", "returnDate"}
IsBorrowWrite(c) ==
    c[1] = "update" /\ DOMAIN c[3] = {"status", "borrowedBy", "division", "borrowedDate"}

\* C8: a return write is issued only by proceedStatusChange on the open
\* confirmation of that return; a borrow write only by saveBorrowChanges on the
\* borrow-details modal, which only proceedStatusChange opens, from a
\* confirmation only handleStatusChange opens; handleStatusChange, closing the
\* confirmation and cancelling or typing into the modal issue no call.
C8_NoWriteBeforeConfirmation ==
    [][/\ \A i \in 1..Len(issued') :
            /\ IsReturnWrite(issued'[i]) =>
                   /\ lastOp' = "proceedStatusChange"
                   /\ isStatusConfirmOpen
                   /\ pendingStatusChange # NULL
                   /\ pendingStatusChange.newStatus = "archived"
                   /\ pendingStatusChange.procurement.id = issued'[i][2]
            /\ IsBorrowWrite(issued'[i]) =>
                   /\ lastOp' = "saveBorrowChanges"
                   /\ borrowEditModal # NULL
                   /\ borrowEditModal.procurement.id = issued'[i][2]
       /\ (borrowEditModal = NULL /\ borrowEditModal' # NULL) =>
            /\ lastOp' = "proceedStatusChange"
            /\ isStatusConfirmOpen
            /\ pendingStatusChange # NULL
            /\ pendingStatusChange.newStatus = "active"
            /\ pendingStatusChange.procurement = borrowEditModal'.procurement
       /\ (~isStatusConfirmOpen /\ isStatusConfirmOpen') => lastOp' = "handleStatusChange"
       /\ lastOp' \in {"handleStatusChange", "closeStatusConfirm", "cancelBorrowEdit",
                       "setBorrowEditModal"}
            => (issued' = <<>> /\ store' = store)]_vars

\* a borrow went through both steps and its write was applied
C8_Witness ==
    /\ BorrowDone
    /\ HasTarget
    /\ IsBorrowWrite(issued[1])
    /\ Target.status = "active"

\* C9: the primordial admin account stays in the store, with status active.
C9_AdminStaysActive ==
    \E u \in users : u.id = adminUser.id /\ u.status = "active"

\* C10: handleDeleteUser and toggleStatus, called on a user whose email is
\* admin@gmail.com, show their message, issue no call and leave the users
\* collection as it was.
C10_AdminCallsRejected ==
    [][\A u \in localUsers : u.email = AdminEmail =>
          /\ (\E c \in BOOLEAN : handleDeleteUser(u.id, c)) =>
                /\ toast' = "error: Cannot delete the main Admin user."
                /\ issued' = <<>>
                /\ users' = users
          /\ toggleStatus(u) =>
                /\ toast' = "error: Cannot change status of main Admin user."
                /\ issued' = <<>>
                /\ users' = users]_vars

\* the delete of the admin account was refused
C10_Witness ==
    /\ lastOp = "handleDeleteUser"
    /\ toast = "error: Cannot delete the main Admin user."
    /\ \E u \in users : u.email = AdminEmail

\* C11: the map calculateStackNumbers returns has as keys exactly the ids of the
\* archived records of the folder, and as values exactly 1..k, each once.
C11_MapCoversArchivedOfFolder ==
    stackFolder # Undefined =>
        /\ {stackNumbers[i][1] : i \in 1..Len(stackNumbers)}
             = {p.id : p \in archivedIn(procurements, stackFolder)}
        /\ {stackNumbers[i][2] : i \in 1..Len(stackNumbers)}
             = 1..Cardinality(archivedIn(procurements, stackFolder))
        /\ Len(stackNumbers) = Cardinality(archivedIn(procurements, stackFolder))

\* a map was computed for a folder that also holds a borrowed record, beside
\* archived records of both folders
C11_Witness ==
    /\ lastOp = "calculateStackNumbers"
    /\ Len(stackNumbers) = 1
    /\ \E p \in procurements : p.folderId = stackFolder /\ p.status = "active"
    /\ \E p \in procurements : p.folderId # stackFolder /\ p.status = "archived"

\* C12: calculateStackNumbers run again for the same folder returns the same
\* map, also after every entry of the map has been written to its record.
C12_CalculateIsIdempotent ==
    [][(/\ lastOp' = "calculateStackNumbers"
        /\ lastOp \in {"calculateStackNumbers", "applyStackMap"}
        /\ stackFolder' = stackFolder)
       => stackNumbers' = stackNumbers]_vars

\* the map was computed again after its entries, two or more, were written
C12_Witness ==
    /\ lastOp = "calculateStackNumbers"
    /\ Len(stackNumbers) >= 2
    /\ issued = stackMapCalls(stackNumbers)

\* C13: handleSubmit first issues addProcurement, creating the record with no
\* stack number; for an archived record, once that call has returned, it issues
\* exactly one more call, the write of stackNumber = (archived records of the
\* folder in the local snapshot) + 1; for a borrowed record it issues no more.
C13_StackNumberWrittenAfterCreate ==
    [][(lastOp' = "handleSubmit" /\ issued' # <<>>) =>
          /\ issued'[1][1] = "add"
          /\ issued'[1][3].stackNumber = Undefined
          /\ IF /\ issued'[1][3].status = "archived"
                /\ \E p \in store' : p.id = issued'[1][2]
             THEN /\ Len(issued') = 2
                  /\ issued'[2] =
                       <<"update", issued'[1][2],
                         [stackNumber |->
                            Cardinality(archivedIn(procurements, issued'[1][3].folderId)) + 1]>>
             ELSE Len(issued') = 1]_vars

\* an archived record was added to a folder that held one, and got number 2
C13_Witness ==
    /\ lastOp = "handleSubmit"
    /\ toast = "success: File record added successfully"
    /\ Len(issued) = 2
    /\ issued[2][3].stackNumber = 2

\* the records shown, as a set
shownSet == {filteredProcurements[i] : i \in 1..Len(filteredProcurements)}

\* C14: when the current page is past the last page, the rows shown are those
\* of the last page.
C14_OutOfRangePageIsClamped ==
    (totalPages >= 1 /\ currentPage > totalPages) =>
        paginatedProcurements =
            slice(filteredProcurements, (totalPages - 1) * itemsPerPage,
                  totalPages * itemsPerPage)

\* text t contains text sub, letter case ignored
containsIgnoringCase(t, sub) ==
    \E i \in 0..(Len(t) - Len(sub)) :
        \A j \in 1..Len(sub) : lowerChar(t[i + j]) = lowerChar(sub[j])

\* C15: the list shows exactly the records whose prNumber or description
\* contains the search text, case ignored, and that agree with each of the
\* shelf, cabinet, folder and urgency filters unless it is empty or its
\* sentinel, and whose status is ticked unless no status is ticked.
C15_FilterIsConjunctionOfCriteria ==
    /\ shownSet =
         {p \in procurements :
            /\ \/ containsIgnoringCase(p.prNumber, filters.search)
               \/ containsIgnoringCase(p.description, filters.search)
            /\ filters.cabinetId \in {"", "all_cabinets", p.cabinetId}
            /\ filters.shelfId \in {"", "all_shelves", p.shelfId}
            /\ filters.folderId \in {"", "all_folders", p.folderId}
            /\ \/ statusFilters = <<>>
               \/ p.status \in {statusFilters[i] : i \in 1..Len(statusFilters)}
            /\ filters.urgencyLevel \in {"", "all_urgency", p.urgencyLevel}}
    /\ Len(filteredProcurements) = Cardinality(shownSet)

\* a search text, a shelf and a status are set, and some records but not all
\* are shown, one of them for its description only
C15_Witness ==
    /\ filters.search # <<>>
    /\ filters.cabinetId = "S1"
    /\ Len(statusFilters) = 1
    /\ Len(filteredProcurements) >= 1
    /\ Len(filteredProcurements) < Cardinality(procurements)
    /\ \E p \in shownSet : ~containsIgnoringCase(p.prNumber, filters.search)

\* C16: with no status ticked, and with every status ticked, the list shows
\* the same records: those the other filters let through.
C16_EmptyStatusSetIsAllStatuses ==
    (statusFilters = <<>> \/ {statusFilters[i] : i \in 1..Len(statusFilters)} = Statuses)
    => shownSet =
         {p \in procurements :
            /\ matchesSearch(p) /\ matchesCabinet(p) /\ matchesShelf(p)
            /\ matchesFolder(p) /\ matchesUrgency(p)}

\* both statuses are ticked and records of both are shown
C16_Witness ==
    /\ Len(statusFilters) = 2
    /\ \E p, q \in shownSet : p.status = "active" /\ q.status = "archived"

\* C17: by date, 'asc' shows the newest record first and 'desc' the oldest
\* first; by description and by prNumber, 'asc' shows the smallest first; the
\* list starts, and is after clearFilters, sorted by date, 'asc'.
C17_DateAscendingIsNewestFirst ==
    /\ \A i, j \in 1..Len(filteredProcurements) :
         i < j =>
            /\ (sortField = "date" /\ sortDirection = "asc") =>
                  filteredProcurements[i].dateAdded >= filteredProcurements[j].dateAdded
            /\ (sortField = "date" /\ sortDirection = "desc") =>
                  filteredProcurements[i].dateAdded <= filteredProcurements[j].dateAdded
            /\ (sortField = "name" /\ sortDirection = "asc") =>
                  localeCompare(filteredProcurements[i].description,
                                filteredProcurements[j].description) <= 0
            /\ (sortField = "prNumber" /\ sortDirection = "asc") =>
                  localeCompare(filteredProcurements[i].prNumber,
                                filteredProcurements[j].prNumber) <= 0
    /\ lastOp \in {"init", "clearFilters"} => (sortField = "date" /\ sortDirection = "asc")

\* after clearFilters the list shows a newer record before an older one
C17_Witness ==
    /\ lastOp = "clearFilters"
    /\ Len(filteredProcurements) >= 2
    /\ filteredProcurements[1].dateAdded
         > filteredProcurements[Len(filteredProcurements)].dateAdded

\* C18: by stack number, the records that have one are in numeric order in
\* the chosen direction, and the records that have none come after them, in
\* both directions.
C18_UnnumberedRecordsSortLast ==
    sortField = "stackNumber" =>
        \A i, j \in 1..Len(filteredProcurements) :
            i < j =>
               /\ filteredProcurements[i].stackNumber = Undefined
                     => filteredProcurements[j].stackNumber = Undefined
               /\ (/\ filteredProcurements[i].stackNumber # Undefined
                   /\ filteredProcurements[j].stackNumber # Undefined)
                  => IF sortDirection = "asc"
                     THEN filteredProcurements[i].stackNumber
                            <= filteredProcurements[j].stackNumber
                     ELSE filteredProcurements[i].stackNumber
                            >= filteredProcurements[j].stackNumber

\* every listener of the provider has delivered its node
providerLoaded ==
    /\ provider.shelves = nodes.cabinets
    /\ provider.cabinets = nodes.shelves
    /\ provider.folders = nodes.folders

\* C19: once the provider has received the hierarchy, the Add Record form's
\* first picker lists the top-tier units, the units the Visual Browser lists
\* at its top level; its second picker lists the mid-tier units under the
\* selected top-tier unit and its third the folders under the selected
\* mid-tier unit, as the Visual Browser lists them.
C19_FormPickersFollowHierarchy ==
    providerLoaded =>
        /\ {c.id : c \in provider.cabinets} = {s.id : s \in provider.shelves}
        /\ addForm.shelfId # "" =>
              availableCabinets = getCabinetsForShelf(addForm.shelfId)
        /\ addForm.cabinetId # "" =>
              availableFolders = getFoldersForCabinet(addForm.cabinetId)

\* the ids of the hierarchy's units
LocationIds == {"S1", "S2", "C1", "C2", "F1", "F2", "F3"}

UpperLetters ==
    {"A", "B", "C", "D", "E", "F", "G", "H", "I", "J", "K", "L", "M", "N", "O", "P", "Q",
     "R", "S", "T", "U", "V", "W", "X", "Y", "Z"}
DigitChars == {"0", "1", "2", "3", "4", "5", "6", "7", "8", "9"}
PunctuationChars ==
    {"!", "@", "#", "$", "%", "^", "&", "*", "(", ")", ",", ".", "?", "\"", ":", "{", "}",
     "|", "<", ">"}
GmailUpper == <<"@", "G", "M", "A", "I", "L", ".", "C", "O", "M">>
RequiredFilled(data) == data.name # <<>> /\ data.email # <<>> /\ data.password # <<>>
GmailAddress(data) ==
    /\ Len(data.email) >= 10
    /\ \A j \in 1..10 :
          data.email[Len(data.email) - 10 + j] \in {Gmail[j], GmailUpper[j]}
HasChar(t, chars) == \E i \in 1..Len(t) : t[i] \in chars
Accepts(data) ==
    /\ RequiredFilled(data)
    /\ GmailAddress(data)
    /\ Len(data.password) >= 8
    /\ HasChar(data.password, UpperLetters)
    /\ HasChar(data.password, DigitChars)
    /\ HasChar(data.password, PunctuationChars)
SavePressed == handleAddUser \/ handleEditUser

\* C21: validateUser accepts a form exactly when name, email and password are
\* non-empty, the email ends with @gmail.com in any letter case, and the
\* password has at least 8 characters with an uppercase letter, a digit and a
\* punctuation character; a@other.com is rejected, and Abc12345! with a
\* gmail address is accepted.
C21_ValidateUserAcceptsExactlyValidForms ==
    [][SavePressed =>
          /\ (validateUser(formData) = "") <=> Accepts(formData)
          /\ (issued' # <<>>) <=> Accepts(formData)
          /\ formData.email = <<"a", "@", "o", "t", "h", "e", "r", ".", "c", "o", "m">>
                => issued' = <<>>
          /\ (/\ formData.name # <<>>
              /\ formData.email = <<"a">> \o Gmail
              /\ formData.password = <<"A", "b", "c", "1", "2", "3", "4", "5", "!">>)
                => issued' # <<>>]_vars

\* a form with a capitalised gmail address and an eight-character password
\* was accepted and its user written
C21_Witness ==
    /\ lastOp = "handleAddUser"
    /\ toast = "success: User added successfully"
    /\ \E u \in users :
          /\ u.email = GmailUpper \/ u.email = <<"A">> \o GmailUpper
          /\ Len(u.password) = 8

\* the message of the first rule a form fails
FirstViolation(data) ==
    IF ~RequiredFilled(data) THEN "Name, Email, and Password are required"
    ELSE IF ~GmailAddress(data) THEN "Email must be a '@gmail.com' address"
    ELSE IF Len(data.password) < 8 THEN "Password must be at least 8 characters long"
    ELSE IF ~HasChar(data.password, UpperLetters)
    THEN "Password must contain at least one uppercase letter"
    ELSE IF ~HasChar(data.password, DigitChars)
    THEN "Password must contain at least one number"
    ELSE "Password must contain at least one special character"

\* C22: when validateUser rejects the form in handleAddUser or handleEditUser,
\* the one message shown is that of the first failing rule (required fields,
\* domain, length, uppercase, digit, special character), no call is issued,
\* and the users, the dialogs and the form data stay as they were.
C22_RejectedFormShowsFirstViolation ==
    [][(SavePressed /\ ~Accepts(formData)) =>
          /\ toast' = FirstViolation(formData)
          /\ issued' = <<>>
          /\ users' = users
          /\ UNCHANGED <<isAddOpen, isEditOpen, formData, selectedUser>>]_vars

\* the Edit User dialog refused a password that lacks only a punctuation
\* character, and stays open
C22_Witness ==
    /\ lastOp = "handleEditUser"
    /\ toast = "Password must contain at least one special character"
    /\ isEditOpen
    /\ formData.password # <<>>
    /\ issued = <<>>

\* a step of the User Management page whose write was issued and refused
UserWriteFailed ==
    /\ issued' # <<>>
    /\ users' = users
    /\ ApplyUserCall(users, issued'[1]) # users

\* the success messages of the User Management page
UserSuccessToasts ==
    {"success: User added successfully", "success: User updated successfully",
     "success: User deleted", "success: User set to active",
     "success: User set to inactive"}

\* C23: a failing remote write is caught by the operation that issued it: an
\* error message is shown for that user action, and no success message.
\* Stated on the user writes (add, edit, delete, status toggle).
C23_FailedWriteShowsError ==
    [][UserWriteFailed => (toast' # "" /\ toast' \notin UserSuccessToasts)]_vars

\* C24: while nobody is logged in, or the logged-in user is not an admin, the
\* User Management page renders nothing and holds no subscription to the
\* users collection; a logged-in non-admin is moved away from the page.
C24_NonAdminSeesAndSubscribesNothing ==
    (currentUser = NULL \/ currentUser.role # "admin") =>
        /\ ~rendersUserManagement
        /\ ~usersSubscribed
        /\ currentUser # NULL => location = "/"

\* C28: in the Visual Browser the level shown and the selections agree: at
\* 'shelves' nothing is selected, at 'cabinets' a shelf only, at 'folders' a
\* shelf and a cabinet, at 'files' a shelf, a cabinet and a folder.
C28_LevelMatchesSelections ==
    /\ viewMode \in {"shelves", "cabinets", "folders", "files"}
    /\ (selectedShelfId # NullId) <=> viewMode \in {"cabinets", "folders", "files"}
    /\ (selectedCabinetId # NullId) <=> viewMode \in {"folders", "files"}
    /\ (selectedFolderId # NullId) <=> viewMode = "files"

\* a breadcrumb led back to the cabinets of shelf S1
C28_Witness ==
    /\ lastOp = "breadcrumb"
    /\ viewMode = "cabinets"
    /\ selectedShelfId = "S1"

\* the entry of the last map that holds a record
mapIndexOf(id) == (CHOOSE i \in 1..Len(stackNumbers) : stackNumbers[i][1] = id)

\* C25: the positions calculateStackNumbers returns respect its comparison
\* rule for every pair of archived records of the folder: of two records that
\* both have a stack number the one with the smaller number gets the smaller
\* position, and otherwise the one added earlier does.
C25_PositionsRespectComparison ==
    lastOp = "calculateStackNumbers" =>
        \A a, b \in {p \in procurements : p.folderId = stackFolder /\ p.status = "archived"} :
            LET first == stackNumbers[mapIndexOf(a.id)][2] < stackNumbers[mapIndexOf(b.id)][2]
            IN  IF a.stackNumber # Undefined /\ b.stackNumber # Undefined
                THEN a.stackNumber < b.stackNumber => first
                ELSE a.dateAdded < b.dateAdded => first

\* a handler that issues `calls` one after the other inside one try block:
\* what it issued is a prefix of them, all but the last issued call are
\* applied when it shows its error, and all are when it shows its success
SequentialWrites(calls, success, error) ==
    /\ \E k \in 1..Len(calls) : issued' = Take(calls, k)
    /\ toast' \in {success, error}
    /\ toast' = success => (issued' = calls /\ store' = ApplyCalls(store, calls))
    /\ toast' = error =>
          store' = ApplyCalls(store, Take(issued', Len(issued') - 1))
    /\ ~storeFaulty => toast' = success

\* C26: the status write and the renumber writes of a borrow or a return are
\* issued one at a time; when the i-th write fails, the writes before it stay
\* applied, the writes after it are never issued, and the error message is
\* shown instead of the success message.
C26_FailedRenumberKeepsEarlierWrites ==
    [][/\ (/\ saveBorrowChanges
            /\ ~borrowFieldsMissing(borrowEditModal.borrowedBy, borrowEditModal.division))
          => SequentialWrites(borrowCalls(borrowEditModal),
                              "success: File marked as borrowed",
                              "error: Failed to update file status")
       /\ (proceedStatusChange /\ pendingStatusChange.newStatus = "archived")
          => SequentialWrites(returnCalls(pendingStatusChange.procurement),
                              "success: File returned and marked as archived",
                              "error: Failed to return file")]_vars

\* a borrow whose status write was applied and whose renumber write failed:
\* the record is borrowed in the store and the error message is shown
C26_Witness ==
    /\ lastOp = "saveBorrowChanges"
    /\ toast = "error: Failed to update file status"
    /\ Len(issued) >= 2
    /\ \E p \in store : p.id = issued[1][2] /\ p.status = "active"

\* C27: handleBulkDelete issues exactly one delete per selected id, all of
\* them whatever the outcome of the others; when all succeed the selection is
\* emptied and the success message is shown; when any fails the aggregate
\* error is shown, the selection is unchanged, and the records whose delete
\* succeeded stay deleted.
C27_BulkDeleteIsAllAtOnce ==
    [][handleBulkDelete =>
         /\ Len(issued') = Cardinality(selectedIds)
         /\ \A id \in selectedIds :
               Cardinality({i \in 1..Len(issued') : issued'[i] = <<"delete", id>>}) = 1
         /\ toast' \in {"success: records deleted successfully",
                        "error: Failed to delete some records"}
         /\ toast' = "success: records deleted successfully" =>
               /\ selectedIds' = {}
               /\ store' = {p \in store : p.id \notin selectedIds}
         /\ toast' = "error: Failed to delete some records" =>
               /\ selectedIds' = selectedIds
               /\ store' \subseteq store
               /\ \A p \in store \ store' : p.id \in selectedIds
         /\ ~storeFaulty => toast' = "success: records deleted successfully"]_vars

\* a bulk delete of several records of which one delete succeeded and one
\* failed: the error is shown, the deleted record is gone from the store, the
\* other is still there, and both are still selected
C27_Witness ==
    /\ lastOp = "handleBulkDelete"
    /\ toast = "error: Failed to delete some records"
    /\ Len(issued) >= 2
    /\ \E i, j \in 1..Len(issued) :
          /\ issued[i][2] \in selectedIds /\ issued[j][2] \in selectedIds
          /\ \E p \in procurements : p.id = issued[i][2] /\ p \notin store
          /\ \E p \in store : p.id = issued[j][2]

C30_SaveEditKeepsOtherWrites ==
    [][handleSaveEdit =>
         \A p \in store : p.id = editingProcurement.id =>
            \E q \in store' :
               /\ q.id = p.id
               /\ q.status = p.status
               /\ q.stackNumber = p.stackNumber
               /\ q.borrowedBy = p.borrowedBy
               /\ q.division = p.division
               /\ q.borrowedDate = p.borrowedDate
               /\ q.returnDate = p.returnDate]_vars

====
